---- MODULE Spec2Model ----
(***************************************************************************)
(* A model of pylti1p3next's service side: the OAuth2 service connector    *)
(* (token cache, token exchange, service requests, pagination), the        *)
(* Assignments-and-Grades service built on it, and the dynamic             *)
(* registration flow.                                                      *)
(*                                                                         *)
(* The repository holds two trees of the package: pylti1p3/ ("top") and    *)
(* src/pylti1p3/ ("src").  The in-process and the Django connector live   *)
(* in the top tree, the Flask connector in the src tree; each raises the   *)
(* LtiServiceException of its own tree.                                    *)
(*                                                                         *)
(* Time is in whole seconds.  Strings that the code takes apart (URLs) are *)
(* sequences of symbols; strings it only compares are TLA+ strings.        *)
(***************************************************************************)
EXTENDS Integers, Sequences, FiniteSets, TLC

VARIABLES
    impl,       \* which connector class is in use: "memory", "django", "flask"
    now,        \* the wall clock (datetime.now() / time.time()), in seconds
    cache,      \* the token cache: scope key -> [tok, exp]
    http,       \* every HTTP request issued so far, in order
    issued,     \* number of access tokens the token endpoint has handed out
    calls,      \* history of finished get_access_token calls
    reqs,       \* history of finished make_service_request calls
    pg,         \* a get_paginated_data generator, its consumer and the pages
    ags,        \* an AssignmentsGradesService, its platform, its operations
    dr,         \* dynamic registration: the build, the store, the runs
    helper,     \* a static helper or a value object taken on its own
    threads     \* threads calling get_access_token at the same time

vars ==
    <<impl, now, cache, http, issued, calls, reqs, pg, ags, dr, helper,
      threads>>

----------------------------------------------------------------------------
(* Bounds of the model. *)

MaxTime == 3
MaxCalls == 2
MaxRequests == 2
MaxPages == 3
MaxYields == 4
MaxIterations == 2
MaxOps == 2
PageSize == 2
MaxRuns == 2

----------------------------------------------------------------------------
(* Small helpers. *)

Max(a, b) == IF a >= b THEN a ELSE b

Last(s) == s[Len(s)]

Range(s) == {s[i] : i \in 1..Len(s)}

----------------------------------------------------------------------------
(* The registration a connector is built with (Registration is immutable). *)
(* URLs are sequences of symbols: "/" and "?" are the delimiters the code  *)
(* looks for, every other symbol is a run of characters without them.      *)

TokenUrl == <<"token">>

Registration ==
    [issuer |-> "iss", client_id |-> "client", auth_token_url |-> TokenUrl]

(* The four AGS scopes, by the last segment of their URL; they share the   *)
(* prefix https://purl.imsglobal.org/spec/lti-ags/scope/, so this is their *)
(* order under Python's string comparison.                                 *)
ScopeOrder == <<"lineitem", "lineitem.readonly", "result.readonly", "score">>

ScopeRank(s) == CHOOSE i \in 1..Len(ScopeOrder) : ScopeOrder[i] = s

(* sorted(scopes): a stable sort, every element kept (duplicates too). *)
RECURSIVE Insert(_, _)
Insert(x, s) ==
    IF s = <<>> THEN <<x>>
    ELSE IF ScopeRank(x) < ScopeRank(Head(s)) THEN <<x>> \o s
    ELSE <<Head(s)>> \o Insert(x, Tail(s))

(* The list left in the order given. *)
SortedAsGiven(s) == s

RECURSIVE Sorted(_)
Sorted(s) ==
    IF s = <<>> THEN <<>> ELSE Insert(Last(s), Sorted(SubSeq(s, 1, Len(s) - 1)))

(* _scope_key: md5 of "|".join([issuer] + sorted(scopes)).  The digest is  *)
(* taken as injective, so the key is the list that is joined.              *)
ScopeKey(scopes) == <<Registration.issuer>> \o Sorted(scopes)

----------------------------------------------------------------------------
(* HTTP requests and responses. *)

NoData == [what |-> "none", scope |-> <<>>, item |-> [id |-> <<>>, tag |-> ""]]

Request(method, url, auth, ctype, accept, data) ==
    [method |-> method, url |-> url, auth |-> auth, ctype |-> ctype,
     accept |-> accept, data |-> data]

NoResponse == [url |-> <<>>, ok |-> FALSE, kind |-> "none"]

(* What the token endpoint answers: tk.mode is "ok", "non2xx" (r.ok is     *)
(* false), "badjson" (r.json() raises JSONDecodeError) or "nokey" (JSON    *)
(* without access_token); tk.e is expires_in, -1 when the field is absent. *)
(* Tokens are numbered in the order of issue; a token is never the empty   *)
(* string (RFC 6749: access-token = 1*VSCHAR), so a cached token is truthy.*)
TokenResponse(tk, n) ==
    [url |-> TokenUrl, ok |-> tk.mode # "non2xx",
     kind |-> IF tk.mode = "badjson" THEN "garbage" ELSE "json",
     has_token |-> tk.mode # "nokey", access_token |-> n, expires_in |-> tk.e]

----------------------------------------------------------------------------
(* The exceptions. *)

TreeOf(i) == IF i = "flask" THEN "src" ELSE "top"

(* pylti1p3/exception.py: LtiServiceException.__init__(self, response). *)
LtiServiceExceptionTop(args) ==
    IF Len(args) = 1
    THEN [exc |-> "LtiServiceException", response |-> args[1]]
    ELSE [exc |-> "TypeError", response |-> NoResponse]

(* src/pylti1p3/exception.py:                                              *)
(* LtiServiceException.__init__(self, message, response).                  *)
LtiServiceExceptionSrc(args) ==
    IF Len(args) = 2
    THEN [exc |-> "LtiServiceException", response |-> args[2]]
    ELSE [exc |-> "TypeError", response |-> NoResponse]

(* `raise LtiServiceException(r)` as the service connector of a tree       *)
(* writes it: one positional argument, the class of the same tree.         *)
RaiseLtiServiceException(i, r) ==
    IF TreeOf(i) = "top" THEN LtiServiceExceptionTop(<<r>>)
    ELSE LtiServiceExceptionSrc(<<r>>)

NoException == [exc |-> "", response |-> NoResponse]

----------------------------------------------------------------------------
(* The token cache.  An entry is [tok, exp]: the token and the absolute    *)
(* time at which it stops being served.                                    *)

HasEntry(c, key) == key \in DOMAIN c

Put(c, key, entry) ==
    [k \in DOMAIN c \cup {key} |-> IF k = key THEN entry ELSE c[k]]

(* The lookup with the comparison turned around to >=: an entry is still   *)
(* served at the second it expires.                                        *)
GetCachedAccessTokenAtExpiry(i, c, key, t) ==
    IF HasEntry(c, key) /\ c[key].exp >= t THEN c[key].tok ELSE 0

(* The lookup with the comparison reversed: only expired entries are       *)
(* served.                                                                 *)
GetCachedAccessTokenReversed(i, c, key, t) ==
    IF HasEntry(c, key) /\ c[key].exp < t THEN c[key].tok ELSE 0

(* _get_cached_access_token, 0 standing for None.  In-process and Flask:   *)
(* the stored tuple is served while expires > datetime.now().  Django:     *)
(* cache.get serves the value until the timeout given to cache.set is      *)
(* over.                                                                   *)
GetCachedAccessToken(i, c, key, t) ==
    IF HasEntry(c, key) /\ c[key].exp > t THEN c[key].tok ELSE 0

(* A store that writes the token but leaves the expiry of an entry that    *)
(* is already there.                                                       *)
CacheAccessTokenKeepingExpiry(i, c, key, tok, expires_in, t) ==
    IF HasEntry(c, key) THEN Put(c, key, [tok |-> tok, exp |-> c[key].exp])
    ELSE IF i = "django"
    THEN Put(c, key, [tok |-> tok, exp |-> t + Max(1, expires_in - 10)])
    ELSE Put(c, key, [tok |-> tok, exp |-> t + expires_in])

(* _cache_access_token.  In-process and Flask: expires = now + expires_in. *)
(* Django: cache.set with timeout max(1, expires_in - 10).                 *)
CacheAccessToken(i, c, key, tok, expires_in, t) ==
    IF i = "django"
    THEN Put(c, key, [tok |-> tok, exp |-> t + Max(1, expires_in - 10)])
    ELSE Put(c, key, [tok |-> tok, exp |-> t + expires_in])

----------------------------------------------------------------------------
(* ServiceConnector.get_access_token.  st is [cache, http, issued]; the    *)
(* result is st after the call, with ret (the token, 0 when it raised),    *)
(* err (the exception raised, NoException when it returned), hit (served   *)
(* from the cache).                                                        *)

TokenRequest(scopes) ==
    Request("POST", TokenUrl, 0, "form", "",
            [what |-> "client_credentials", scope |-> scopes,
             item |-> [id |-> <<>>, tag |-> ""]])

(* A get_access_token that drops the entry of its scope key when the      *)
(* token endpoint answers with a failure.                                  *)
GetAccessTokenDroppingTheEntry(i, st, scopes0, tk, t) ==
    LET scopes == Sorted(scopes0)
        key == ScopeKey(scopes)
        cached == GetCachedAccessToken(i, st.cache, key, t)
        n == st.issued + 1
        r == TokenResponse(tk, n)
        sent == [st EXCEPT !.http = Append(@, TokenRequest(scopes))]
        dropped == [k \in DOMAIN st.cache \ {key} |-> st.cache[k]]
    IN  IF cached # 0
        THEN [cache |-> st.cache, http |-> st.http, issued |-> st.issued,
              ret |-> cached, err |-> NoException, hit |-> TRUE]
        ELSE IF ~r.ok
        THEN [cache |-> dropped, http |-> sent.http, issued |-> st.issued,
              ret |-> 0, err |-> RaiseLtiServiceException(i, r), hit |-> FALSE]
        ELSE IF r.kind = "garbage"
        THEN [cache |-> dropped, http |-> sent.http, issued |-> st.issued,
              ret |-> 0, err |-> RaiseLtiServiceException(i, r), hit |-> FALSE]
        ELSE IF ~r.has_token
        THEN [cache |-> dropped, http |-> sent.http, issued |-> st.issued,
              ret |-> 0, err |-> [exc |-> "KeyError", response |-> NoResponse],
              hit |-> FALSE]
        ELSE [cache |-> CacheAccessToken(i, st.cache, key, r.access_token,
                                         IF r.expires_in = -1 THEN 0
                                         ELSE r.expires_in, t),
              http |-> sent.http, issued |-> n,
              ret |-> r.access_token, err |-> NoException, hit |-> FALSE]

GetAccessToken(i, st, scopes0, tk, t) ==
    LET scopes == Sorted(scopes0)
        key == ScopeKey(scopes)
        cached == GetCachedAccessToken(i, st.cache, key, t)
        n == st.issued + 1
        r == TokenResponse(tk, n)
        sent == [st EXCEPT !.http = Append(@, TokenRequest(scopes))]
    IN  IF cached # 0
        THEN [cache |-> st.cache, http |-> st.http, issued |-> st.issued,
              ret |-> cached, err |-> NoException, hit |-> TRUE]
        ELSE IF ~r.ok
        THEN [cache |-> st.cache, http |-> sent.http, issued |-> st.issued,
              ret |-> 0, err |-> RaiseLtiServiceException(i, r), hit |-> FALSE]
        ELSE IF r.kind = "garbage"
        THEN [cache |-> st.cache, http |-> sent.http, issued |-> st.issued,
              ret |-> 0, err |-> RaiseLtiServiceException(i, r), hit |-> FALSE]
        ELSE IF ~r.has_token
        THEN [cache |-> st.cache, http |-> sent.http, issued |-> st.issued,
              ret |-> 0, err |-> [exc |-> "KeyError", response |-> NoResponse],
              hit |-> FALSE]
        ELSE [cache |-> CacheAccessToken(i, st.cache, key, r.access_token,
                                         IF r.expires_in = -1 THEN 0
                                         ELSE r.expires_in, t),
              http |-> sent.http, issued |-> n,
              ret |-> r.access_token, err |-> NoException, hit |-> FALSE]

----------------------------------------------------------------------------
(* ServiceConnector.make_service_request. *)

(* JSON bodies: None, a list of objects, one object, anything else. *)
JsonNone == [type |-> "none", items |-> <<>>]
JsonList(items) == [type |-> "list", items |-> items]
JsonDict(item) == [type |-> "dict", items |-> <<item>>]
JsonOther == [type |-> "other", items |-> <<>>]

(* A service response: r.ok, r.content (kind "empty", "json" or "garbage", *)
(* the last being content r.json() cannot decode), the decoded body, and   *)
(* the Link header as its list of <url>; rel="..." entries.                *)
ServiceResponse(url, ok, kind, body, link) ==
    [url |-> url, ok |-> ok, kind |-> kind, body |-> body, link |-> link]

(* str.lower() on the symbols the model's headers and URLs are made of. *)
LowerSymbol(x) ==
    CASE x = "Items" -> "items"
      [] x = "NEXT" -> "next"
      [] OTHER -> x

Lower(u) == [k \in 1..Len(u) |-> LowerSymbol(u[k])]

(* The regular expression searched for in the Link header matches an      *)
(* entry <url>; rel="next": the result is the URL of the first entry whose *)
(* relation is next, <<>> when there is none.  The top tree matches with   *)
(* re.IGNORECASE, the src tree lower-cases the whole header before         *)
(* matching, the URL included.                                             *)
(* A match anchored at the start of the header (re.match for re.search):   *)
(* only the first entry is looked at.                                      *)
FirstNextAnchored(link) ==
    IF link = <<>> THEN <<>>
    ELSE IF LowerSymbol(Head(link).rel) = "next" THEN Head(link).url
    ELSE <<>>

RECURSIVE FirstNext(_)
FirstNext(link) ==
    IF link = <<>> THEN <<>>
    ELSE IF LowerSymbol(Head(link).rel) = "next" THEN Head(link).url
    ELSE FirstNext(Tail(link))

NextPageUrl(i, link) ==
    IF TreeOf(i) = "src" THEN Lower(FirstNext(link)) ELSE FirstNext(link)

NoResult == [returned |-> FALSE, body |-> JsonNone, next_page_url |-> <<>>]

(* make_service_request from the point where get_access_token has         *)
(* finished; tok is the state it left, with its outcome.                   *)
SendServiceRequest(i, tok, url, is_post, data, content_type, accept, sv) ==
    LET req == IF is_post
               THEN Request("POST", url, tok.ret, content_type, accept, data)
               ELSE Request("GET", url, tok.ret, "", accept, NoData)
        unsent == [cache |-> tok.cache, http |-> tok.http,
                   issued |-> tok.issued, ret |-> tok.ret, err |-> tok.err,
                   hit |-> tok.hit, result |-> NoResult]
        sent == [unsent EXCEPT !.http = Append(@, req)]
    IN  IF unsent.err.exc # "" THEN unsent
        ELSE IF ~sv.ok
        THEN [sent EXCEPT !.err = RaiseLtiServiceException(i, sv)]
        ELSE IF sv.kind = "garbage"
        THEN [sent EXCEPT
                !.err = [exc |-> "JSONDecodeError", response |-> NoResponse]]
        ELSE [sent EXCEPT
                !.result = [returned |-> TRUE,
                            body |-> IF sv.kind = "empty" THEN JsonNone
                                     ELSE sv.body,
                            next_page_url |-> NextPageUrl(i, sv.link)]]

(* A make_service_request that sends the service request once more when   *)
(* the platform has answered it with a failure.                            *)
ResendOnFailure(i, first, url, is_post, data, content_type, accept, sv) ==
    IF first.err.exc = "LtiServiceException" /\ first.ret # 0
    THEN SendServiceRequest(i, [first EXCEPT !.err = NoException], url,
                            is_post, data, content_type, accept, sv)
    ELSE first

MakeServiceRequestResending(i, st, scopes, url, is_post, data, content_type, accept, tk, sv, t) ==
    ResendOnFailure(i,
        SendServiceRequest(i, GetAccessToken(i, st, scopes, tk, t), url,
                           is_post, data, content_type, accept, sv),
        url, is_post, data, content_type, accept, sv)

(* The result is the state after the call, as for GetAccessToken, with     *)
(* result: the dict returned (NoResult when the call raised).  sv is the   *)
(* platform's answer to the service request.                               *)
MakeServiceRequest(i, st, scopes, url, is_post, data, content_type, accept, tk, sv, t) ==
    SendServiceRequest(i, GetAccessToken(i, st, scopes, tk, t), url, is_post,
                       data, content_type, accept, sv)

----------------------------------------------------------------------------
(* ServiceConnector.get_paginated_data, a generator (top tree only).  A    *)
(* generator object g is [pc, url, scopes, accept, last]: pc is "start"    *)
(* before the first next(), "yield" while suspended at the yield, "done"   *)
(* once it has returned or raised; scopes, url and accept are the          *)
(* arguments of the call; last is the response it yielded last.            *)

NewGenerator(scopes, url, accept) ==
    [pc |-> "start", url |-> url, scopes |-> scopes, accept |-> accept,
     last |-> NoResult]

(* The URL the next next() will ask for, <<>> when it will stop. *)
GeneratorUrl(g) == IF g.pc = "start" THEN g.url ELSE g.last.next_page_url

Stopped(st, g) ==
    [cache |-> st.cache, http |-> st.http, issued |-> st.issued,
     gen |-> [g EXCEPT !.pc = "done"], out |-> "stop",
     value |-> NoResult, err |-> NoException]

(* The generator after its make_service_request has finished in `after`:   *)
(* an exception ends it, a response is yielded.                            *)
YieldOrRaise(g, url, after) ==
    LET ended == [cache |-> after.cache, http |-> after.http,
                  issued |-> after.issued,
                  gen |-> [g EXCEPT !.pc = "done"], out |-> "raise",
                  value |-> NoResult, err |-> after.err]
    IN  IF ended.err.exc # "" THEN ended
        ELSE [ended EXCEPT
                !.gen = [g EXCEPT !.pc = "yield", !.url = url,
                                  !.last = after.result],
                !.out = "yield", !.value = after.result]

(* A generator that ends quietly when a page request raises. *)
GetPaginatedDataNextSwallowing(i, st, g, tk, sv, t) ==
    IF GeneratorUrl(g) = <<>> THEN Stopped(st, g)
    ELSE [YieldOrRaise(g, GeneratorUrl(g),
                       MakeServiceRequest(i, st, g.scopes, GeneratorUrl(g),
                                          FALSE, NoData, "application/json",
                                          g.accept, tk, sv, t))
            EXCEPT !.out = IF @ = "raise" THEN "stop" ELSE @,
                   !.err = NoException]

(* One next() on the generator.  sv is the platform's answer to a request  *)
(* for the URL the generator asks for.  The result is the state after the  *)
(* step with gen (the generator after it), out ("yield", "stop" or         *)
(* "raise"), value (the response yielded) and err.                         *)
GetPaginatedDataNext(i, st, g, tk, sv, t) ==
    IF GeneratorUrl(g) = <<>> THEN Stopped(st, g)
    ELSE YieldOrRaise(g, GeneratorUrl(g),
                      MakeServiceRequest(i, st, g.scopes, GeneratorUrl(g),
                                         FALSE, NoData, "application/json",
                                         g.accept, tk, sv, t))

TokenPosts(h) == Cardinality({k \in 1..Len(h) : h[k].url = TokenUrl})

ServicePosts(h) ==
    Cardinality({k \in 1..Len(h) : h[k].url # TokenUrl /\ h[k].method = "POST"})

ExpiryOf(c, key) == IF HasEntry(c, key) THEN c[key].exp ELSE -1

----------------------------------------------------------------------------
(* AssignmentsGradesService.  sd is the launch's AGS claim (_service_data):*)
(* scope (the granted scopes, a list), lineitems (the container URL) and   *)
(* lineitem (the launch-bound line item URL, <<>> when the claim has none).*)
(* A line item, as a dict or as a LineItem object, is [id, tag]; id <<>>   *)
(* and tag "" stand for an absent value.  The service is driven through a  *)
(* connector that provides get_paginated_data.  plat is the platform it    *)
(* talks to, defined below; an operation returns what it leaves of it.     *)

CanReadLineitem(sd) ==
    "lineitem.readonly" \in Range(sd.scope) \/ "lineitem" \in Range(sd.scope)

CanCreateLineitem(sd) == "lineitem" \in Range(sd.scope)

CanReadGrades(sd) == "result.readonly" \in Range(sd.scope)

CanPutGrade(sd) == "score" \in Range(sd.scope)

NoItem == [id |-> <<>>, tag |-> ""]

(* LineItem(dict) and LineItem.get_value(): the object mirrors the dict. *)
LineItem(dict) == dict

LtiException == [exc |-> "LtiException", response |-> NoResponse]

AssertionError == [exc |-> "AssertionError", response |-> NoResponse]

(* url.split("?"): the part before the first "?" and the part between the  *)
(* first and the second "?" (to the end when there is no second one).      *)
RECURSIVE UpTo(_, _)
UpTo(u, sym) ==
    IF u = <<>> \/ Head(u) = sym THEN <<>>
    ELSE <<Head(u)>> \o UpTo(Tail(u), sym)

AfterFirst(u, sym) == SubSeq(u, Len(UpTo(u, sym)) + 2, Len(u))

EndsWithSlash(u) == u # <<>> /\ Last(u) = "/"

(* _add_url_path_ending *)
AddUrlPathEnding(url, url_path_ending) ==
    IF "?" \in Range(url)
    THEN UpTo(url, "?")
            \o (IF EndsWithSlash(UpTo(url, "?")) THEN <<>> ELSE <<"/">>)
            \o <<url_path_ending>> \o <<"?">>
            \o UpTo(AfterFirst(url, "?"), "?")
    ELSE url \o (IF EndsWithSlash(url) THEN <<>> ELSE <<"/">>)
             \o <<url_path_ending>>

(* What an operation of the service leaves: the connector's state, the     *)
(* exception it raised (NoException when it returned), and what it         *)
(* returned: a line item (NoItem for None), a list of dicts, or the        *)
(* response dict of make_service_request.                                  *)
AgsOut(st, plat, err, item, items, result) ==
    [cache |-> st.cache, http |-> st.http, issued |-> st.issued,
     plat |-> plat, err |-> err, item |-> item, items |-> items,
     result |-> result]

AgsRaise(st, plat, err) == AgsOut(st, plat, err, NoItem, <<>>, NoResult)

----------------------------------------------------------------------------
(* The platform the service talks to.  plat is [items, size, style]: the   *)
(* line items it holds in the order of their creation, how many it puts on *)
(* a page of the container, and how it writes a line item's id.  It lists  *)
(* every line item it holds.  pb is how it behaves during one operation:   *)
(* "ok", "fail" (every service request is answered non-2xx) or "bad"       *)
(* (2xx, with a JSON body of the wrong type).                              *)

Digits == <<"1", "2", "3", "4", "5", "6">>

LineitemsUrl == <<"Items">>

PageUrl(k) == <<"Items", "?", "page", Digits[k]>>

PageOf(url) ==
    IF url = LineitemsUrl THEN 1
    ELSE IF \E k \in 1..Len(Digits) : PageUrl(k) = url
    THEN CHOOSE k \in 1..Len(Digits) : PageUrl(k) = url
    ELSE 0

(* The id of the platform's k-th line item: a path, a path with a query,   *)
(* or a path with a query that holds a "?" itself (RFC 3986 allows "?" in  *)
(* a query).                                                               *)
ItemId(style, k) ==
    IF style = "query" THEN <<"Items", "/", Digits[k], "?", "type=1">>
    ELSE IF style = "query2"
    THEN <<"Items", "/", Digits[k], "?", "back=/a", "?", "b">>
    ELSE <<"Items", "/", Digits[k]>>

Min(a, b) == IF a <= b THEN a ELSE b

ContainerPage(plat, k) ==
    SubSeq(plat.items, (k - 1) * plat.size + 1,
           Min(k * plat.size, Len(plat.items)))

ContainerLink(plat, k) ==
    (IF k > 1 THEN <<[url |-> PageUrl(k - 1), rel |-> "prev"]>> ELSE <<>>)
        \o (IF k * plat.size < Len(plat.items)
            THEN <<[url |-> PageUrl(k + 1), rel |-> "next"]>>
            ELSE <<>>)

IsScoresUrl(url) == "scores" \in Range(url)

IsResultsUrl(url) == "results" \in Range(url)

AResult == [id |-> <<"result">>, tag |-> ""]

AnotherResult == [id |-> <<"result", "2">>, tag |-> ""]

(* The results of a line item come on two pages, the second at the URL of  *)
(* the first with a page mark added.                                       *)
ResultsPage(pb, url) ==
    IF pb = "bad" THEN ServiceResponse(url, TRUE, "json", JsonDict(AResult), <<>>)
    ELSE IF "page2" \in Range(url)
    THEN ServiceResponse(url, TRUE, "json", JsonList(<<AnotherResult>>), <<>>)
    ELSE ServiceResponse(url, TRUE, "json", JsonList(<<AResult>>),
                         <<[url |-> url \o <<"page2">>, rel |-> "next"]>>)

AReceipt == [id |-> <<"resultUrl">>, tag |-> ""]

Failure(url) == ServiceResponse(url, FALSE, "json", JsonNone, <<>>)

(* The line item a creation POST makes: the posted one, with a fresh id. *)
Created(plat, posted) ==
    [posted EXCEPT !.id = ItemId(plat.style, Len(plat.items) + 1)]

AgsResponse(plat, pb, method, url, data) ==
    IF pb = "fail" THEN Failure(url)
    ELSE IF method = "POST" /\ url = LineitemsUrl
    THEN ServiceResponse(url, TRUE, "json",
            IF pb = "bad" THEN JsonList(<<>>)
            ELSE JsonDict(Created(plat, data.item)), <<>>)
    ELSE IF method = "POST" /\ IsScoresUrl(url)
    THEN ServiceResponse(url, TRUE, "json", JsonDict(AReceipt), <<>>)
    ELSE IF method = "GET" /\ IsResultsUrl(url)
    THEN ResultsPage(pb, url)
    ELSE IF method = "GET" /\ PageOf(url) # 0
    THEN ServiceResponse(url, TRUE, "json",
            IF pb = "bad" \/ (pb = "bad2" /\ PageOf(url) > 1)
            THEN JsonDict(NoItem)
            ELSE JsonList(ContainerPage(plat, PageOf(url))),
            IF pb = "bad" THEN <<>>
            ELSE IF pb = "bad2" /\ PageOf(url) > 1
            THEN <<[url |-> PageUrl(PageOf(url) + 1), rel |-> "next"]>>
            ELSE ContainerLink(plat, PageOf(url)))
    ELSE IF method = "GET" /\ \E k \in 1..Len(plat.items) : plat.items[k].id = url
    THEN ServiceResponse(url, TRUE, "json",
            JsonDict(plat.items[CHOOSE k \in 1..Len(plat.items) :
                                    plat.items[k].id = url]), <<>>)
    ELSE Failure(url)

(* The platform after a creation POST that it has answered with the line   *)
(* item it created.                                                        *)
Holding(plat, created) == [plat EXCEPT !.items = Append(@, created)]

----------------------------------------------------------------------------
(* The operations of AssignmentsGradesService.  e is what the service      *)
(* meets during one operation: e.tk, how the token endpoint answers, and   *)
(* e.pb, how the platform behaves.  Each operator gives an AgsOut.         *)

LineitemType == "application/vnd.ims.lis.v2.lineitem+json"

LineitemContainerType == "application/vnd.ims.lis.v2.lineitemcontainer+json"

ResultContainerType == "application/vnd.ims.lis.v2.resultcontainer+json"

ScoreType == "application/vnd.ims.lis.v1.score+json"

(* grade.get_value(), new_lineitem.get_value() *)
GradeData == [what |-> "score", scope |-> <<>>, item |-> NoItem]

LineitemData(new_lineitem) ==
    [what |-> "lineitem", scope |-> <<>>, item |-> new_lineitem]

(* A request that asks for its token with the one scope it needs. *)
AgsRequestWithItsOwnScope(i, st, sd, plat, e, url, is_post, data, content_type, accept, t) ==
    MakeServiceRequest(i, st,
                       IF is_post /\ url = sd.lineitems THEN <<"lineitem">>
                       ELSE IF is_post THEN <<"score">>
                       ELSE sd.scope,
                       url, is_post, data, content_type,
                       accept, e.tk,
                       AgsResponse(plat, e.pb,
                                   IF is_post THEN "POST" ELSE "GET", url, data),
                       t)

(* One make_service_request of the service, answered by the platform. *)
AgsRequest(i, st, sd, plat, e, url, is_post, data, content_type, accept, t) ==
    MakeServiceRequest(i, st, sd.scope, url, is_post, data, content_type,
                       accept, e.tk,
                       AgsResponse(plat, e.pb,
                                   IF is_post THEN "POST" ELSE "GET", url, data),
                       t)

(* A condition no line item satisfies. *)
MatchesNothing(prop_name, prop_value, x) == FALSE

(* x.get("resourceLinkId") and x.get("resourceId") of a line item: "" is   *)
(* None, which a line item without the member gives.                       *)
ResourceLinkIdOf(x) ==
    IF "resource_link_id" \in DOMAIN x THEN x.resource_link_id ELSE ""

ResourceIdOf(x) == IF "resource_id" \in DOMAIN x THEN x.resource_id ELSE ""

(* lambda x: x.get(prop_name) == prop_value *)
Matches(prop_name, prop_value, x) ==
    IF prop_name = "tag" THEN x.tag = prop_value
    ELSE IF prop_name = "id" THEN x.id = prop_value
    ELSE IF prop_name = "resourceLinkId"
    THEN ResourceLinkIdOf(x) = prop_value
    ELSE ResourceIdOf(x) = prop_value

(* The last item of a page that satisfies the condition. *)
LastMatch(prop_name, prop_value, items) ==
    IF \E k \in 1..Len(items) : Matches(prop_name, prop_value, items[k])
    THEN items[CHOOSE k \in 1..Len(items) :
                 /\ Matches(prop_name, prop_value, items[k])
                 /\ \A j \in (k + 1)..Len(items) :
                        ~Matches(prop_name, prop_value, items[j])]
    ELSE NoItem

FirstMatch(prop_name, prop_value, items) ==
    IF \E k \in 1..Len(items) : Matches(prop_name, prop_value, items[k])
    THEN items[CHOOSE k \in 1..Len(items) :
                 /\ Matches(prop_name, prop_value, items[k])
                 /\ \A j \in 1..(k - 1) :
                        ~Matches(prop_name, prop_value, items[j])]
    ELSE NoItem

(* get_lineitems consumed to its end (list(ags.get_lineitems())), and      *)
(* get_grades likewise: Drain resumes the page generator g, DrainStep      *)
(* handles what get_paginated_data gave.  acc is what has been yielded to  *)
(* the consumer so far; it is reported also when the iteration raises.     *)
RECURSIVE Drain(_, _, _, _, _, _, _, _)
RECURSIVE DrainStep(_, _, _, _, _, _, _)
DrainStep(i, sd, plat, e, t, acc, step) ==
    IF step.out = "raise"
    THEN AgsOut(step, plat, step.err, NoItem, acc, NoResult)
    ELSE IF step.out = "stop"
    THEN AgsOut(step, plat, NoException, NoItem, acc, NoResult)
    ELSE IF step.value.body.type # "list"
    THEN AgsOut(step, plat, LtiException, NoItem, acc, NoResult)
    ELSE Drain(i, step, sd, plat, e, t, acc \o step.value.body.items, step.gen)

Drain(i, st, sd, plat, e, t, acc, g) ==
    DrainStep(i, sd, plat, e, t, acc,
              GetPaginatedDataNext(i, st, g, e.tk,
                                   AgsResponse(plat, e.pb, "GET",
                                               GeneratorUrl(g), NoData), t))

(* get_lineitems *)
GetLineitems(i, st, sd, plat, e, t) ==
    IF sd.lineitems = <<>>
    THEN AgsOut(st, plat, NoException, NoItem, <<>>, NoResult)
    ELSE Drain(i, st, sd, plat, e, t, <<>>,
               NewGenerator(sd.scope, sd.lineitems, LineitemContainerType))

(* find_lineitem_satisfying over get_lineitems: the loop takes pages from  *)
(* the generator only until an item satisfies the condition.               *)
RECURSIVE Find(_, _, _, _, _, _, _, _, _)
RECURSIVE FindStep(_, _, _, _, _, _, _, _)
FindStep(i, sd, plat, e, t, prop_name, prop_value, step) ==
    IF step.out = "raise" THEN AgsRaise(step, plat, step.err)
    ELSE IF step.out = "stop"
    THEN AgsOut(step, plat, NoException, NoItem, <<>>, NoResult)
    ELSE IF step.value.body.type # "list"
    THEN AgsRaise(step, plat, LtiException)
    ELSE IF FirstMatch(prop_name, prop_value, step.value.body.items) # NoItem
    THEN AgsOut(step, plat, NoException,
                LineItem(FirstMatch(prop_name, prop_value,
                                    step.value.body.items)),
                <<>>, NoResult)
    ELSE Find(i, step, sd, plat, e, t, prop_name, prop_value, step.gen)

Find(i, st, sd, plat, e, t, prop_name, prop_value, g) ==
    FindStep(i, sd, plat, e, t, prop_name, prop_value,
             GetPaginatedDataNext(i, st, g, e.tk,
                                  AgsResponse(plat, e.pb, "GET",
                                              GeneratorUrl(g), NoData), t))

(* A lookup that lists every line item before it looks for the match. *)
FoundAmong(prop_name, prop_value, listed) ==
    IF listed.err.exc # "" THEN listed
    ELSE [listed EXCEPT
            !.item = FirstMatch(prop_name, prop_value, listed.items),
            !.items = <<>>]

FindLineitemListingAll(i, st, sd, plat, e, t, prop_name, prop_value) ==
    FoundAmong(prop_name, prop_value, GetLineitems(i, st, sd, plat, e, t))

(* find_lineitem (find_lineitem_by_tag, find_lineitem_by_id) *)
FindLineitem(i, st, sd, plat, e, t, prop_name, prop_value) ==
    IF sd.lineitems = <<>>
    THEN AgsOut(st, plat, NoException, NoItem, <<>>, NoResult)
    ELSE Find(i, st, sd, plat, e, t, prop_name, prop_value,
              NewGenerator(sd.scope, sd.lineitems, LineitemContainerType))

(* create_lineitem from the point where make_service_request has finished *)
(* in `after`.                                                             *)
CreateLineitemDone(plat, after) ==
    IF after.err.exc # "" THEN AgsRaise(after, plat, after.err)
    ELSE IF after.result.body.type # "dict"
    THEN AgsRaise(after, plat, LtiException)
    ELSE AgsOut(after, Holding(plat, after.result.body.items[1]), NoException,
                LineItem(after.result.body.items[1]), <<>>, NoResult)

(* create_lineitem *)
CreateLineitem(i, st, sd, plat, e, t, new_lineitem) ==
    IF ~CanCreateLineitem(sd) THEN AgsRaise(st, plat, LtiException)
    ELSE CreateLineitemDone(plat,
            AgsRequest(i, st, sd, plat, e, sd.lineitems, TRUE,
                       LineitemData(new_lineitem), LineitemType, LineitemType,
                       t))

(* A find_or_create_lineitem that creates whether or not the lookup has    *)
(* found a line item.                                                      *)
FindOrCreateFoundAlwaysCreating(i, sd, e, t, new_lineitem, found) ==
    IF found.err.exc # "" THEN found
    ELSE CreateLineitem(i, found, sd, found.plat, e, t, new_lineitem)

(* find_or_create_lineitem from the point where the lookup has finished in *)
(* `found`.                                                                *)
FindOrCreateFound(i, sd, e, t, new_lineitem, found) ==
    IF found.err.exc # "" THEN found
    ELSE IF found.item # NoItem THEN found
    ELSE CreateLineitem(i, found, sd, found.plat, e, t, new_lineitem)

(* find_or_create_lineitem without a condition: the branches on find_by. *)
FindOrCreateLineitem(i, st, sd, plat, e, t, new_lineitem, find_by) ==
    IF find_by = "tag"
    THEN IF new_lineitem.tag = "" THEN AgsRaise(st, plat, LtiException)
         ELSE FindOrCreateFound(i, sd, e, t, new_lineitem,
                FindLineitem(i, st, sd, plat, e, t, "tag", new_lineitem.tag))
    ELSE IF find_by = "id"
    THEN IF new_lineitem.id = <<>> THEN AgsRaise(st, plat, LtiException)
         ELSE FindOrCreateFound(i, sd, e, t, new_lineitem,
                FindLineitem(i, st, sd, plat, e, t, "id", new_lineitem.id))
    ELSE IF find_by = "resource_link_id"
    THEN IF ResourceLinkIdOf(new_lineitem) = ""
         THEN AgsRaise(st, plat, LtiException)
         ELSE FindOrCreateFound(i, sd, e, t, new_lineitem,
                FindLineitem(i, st, sd, plat, e, t, "resourceLinkId",
                             ResourceLinkIdOf(new_lineitem)))
    ELSE IF find_by = "resource_id"
    THEN IF ResourceIdOf(new_lineitem) = ""
         THEN AgsRaise(st, plat, LtiException)
         ELSE FindOrCreateFound(i, sd, e, t, new_lineitem,
                FindLineitem(i, st, sd, plat, e, t, "resourceId",
                             ResourceIdOf(new_lineitem)))
    ELSE AgsRaise(st, plat, LtiException)

(* A find_or_create_lineitem that checks find_by before it looks at the   *)
(* condition.                                                              *)
FindOrCreateLineitemWithCheckingFirst(i, st, sd, plat, e, t, new_lineitem, find_by, condition) ==
    IF condition.given
          /\ find_by \in {"tag", "id", "resource_link_id", "resource_id"}
    THEN FindOrCreateFound(i, sd, e, t, new_lineitem,
            FindLineitem(i, st, sd, plat, e, t, condition.prop_name,
                         condition.prop_value))
    ELSE FindOrCreateLineitem(i, st, sd, plat, e, t, new_lineitem, find_by)

(* find_or_create_lineitem.  condition is [given, prop_name, prop_value]:  *)
(* given is FALSE for None, and a condition that is given holds of the     *)
(* line items whose prop_name is prop_value.                               *)
FindOrCreateLineitemWith(i, st, sd, plat, e, t, new_lineitem, find_by, condition) ==
    IF condition.given
    THEN FindOrCreateFound(i, sd, e, t, new_lineitem,
            FindLineitem(i, st, sd, plat, e, t, condition.prop_name,
                         condition.prop_value))
    ELSE FindOrCreateLineitem(i, st, sd, plat, e, t, new_lineitem, find_by)

(* put_grade from the point where the score URL is known: the POST. *)
PutGradeDone(plat, after) ==
    IF after.err.exc # "" THEN AgsRaise(after, plat, after.err)
    ELSE AgsOut(after, plat, NoException, NoItem, <<>>, after.result)

PutGradeTo(i, st, sd, plat, e, t, score_url) ==
    IF score_url = <<>> THEN AgsRaise(st, plat, AssertionError)
    ELSE PutGradeDone(plat,
            AgsRequest(i, st, sd, plat, e,
                       AddUrlPathEnding(score_url, "scores"), TRUE, GradeData,
                       ScoreType, "application/json", t))

PutGradeFound(i, sd, e, t, found) ==
    IF found.err.exc # "" THEN found
    ELSE PutGradeTo(i, found, sd, found.plat, e, t, found.item.id)

(* A put_grade that prefers the launch-bound line item to the one given. *)
PutGradeLaunchBoundFirst(i, st, sd, plat, e, t, lineitem) ==
    IF ~CanPutGrade(sd) THEN AgsRaise(st, plat, LtiException)
    ELSE IF sd.lineitem # <<>>
    THEN PutGradeTo(i, st, sd, plat, e, t, sd.lineitem)
    ELSE IF lineitem.given
    THEN IF lineitem.id = <<>>
         THEN PutGradeFound(i, sd, e, t,
                FindOrCreateLineitem(i, st, sd, plat, e, t,
                    [id |-> lineitem.id, tag |-> lineitem.tag], "tag"))
         ELSE PutGradeTo(i, st, sd, plat, e, t, lineitem.id)
    ELSE AgsRaise(st, plat, LtiException)

(* put_grade.  lineitem is [given, id, tag]: given is FALSE for None. *)
PutGrade(i, st, sd, plat, e, t, lineitem) ==
    IF ~CanPutGrade(sd) THEN AgsRaise(st, plat, LtiException)
    ELSE IF lineitem.given
    THEN IF lineitem.id = <<>>
         THEN PutGradeFound(i, sd, e, t,
                FindOrCreateLineitem(i, st, sd, plat, e, t,
                    [id |-> lineitem.id, tag |-> lineitem.tag], "tag"))
         ELSE PutGradeTo(i, st, sd, plat, e, t, lineitem.id)
    ELSE IF sd.lineitem # <<>>
    THEN PutGradeTo(i, st, sd, plat, e, t, sd.lineitem)
    ELSE AgsRaise(st, plat, LtiException)

KeyError == [exc |-> "KeyError", response |-> NoResponse]

GetLineitemDone(plat, after) ==
    IF after.err.exc # "" THEN AgsRaise(after, plat, after.err)
    ELSE AgsOut(after, plat, NoException,
                IF after.result.body.type = "dict"
                THEN LineItem(after.result.body.items[1]) ELSE NoItem,
                <<>>, NoResult)

(* get_lineitem.  lineitem_url <<>> is None; the launch-bound line item is *)
(* read with _service_data["lineitem"], a KeyError when there is none.     *)
GetLineitem(i, st, sd, plat, e, t, lineitem_url) ==
    IF ~CanReadLineitem(sd) THEN AgsRaise(st, plat, LtiException)
    ELSE IF lineitem_url = <<>> /\ sd.lineitem = <<>>
    THEN AgsRaise(st, plat, KeyError)
    ELSE GetLineitemDone(plat,
            AgsRequest(i, st, sd, plat, e,
                       IF lineitem_url = <<>> THEN sd.lineitem
                       ELSE lineitem_url,
                       FALSE, NoData, "application/json", LineitemType, t))

(* A get_lineitems_page that returns the body whatever its type. *)
GetLineitemsPageDoneAnyBody(plat, after) ==
    IF after.err.exc # "" THEN AgsRaise(after, plat, after.err)
    ELSE AgsOut(after, plat, NoException, NoItem, after.result.body.items,
                after.result)

GetLineitemsPageDone(plat, after) ==
    IF after.err.exc # "" THEN AgsRaise(after, plat, after.err)
    ELSE IF after.result.body.type # "list"
    THEN AgsRaise(after, plat, LtiException)
    ELSE AgsOut(after, plat, NoException, NoItem, after.result.body.items,
                after.result)

(* get_lineitems_page *)
GetLineitemsPage(i, st, sd, plat, e, t, lineitems_url) ==
    IF ~CanReadLineitem(sd) THEN AgsRaise(st, plat, LtiException)
    ELSE GetLineitemsPageDone(plat,
            AgsRequest(i, st, sd, plat, e,
                       IF lineitems_url = <<>> THEN sd.lineitems
                       ELSE lineitems_url,
                       FALSE, NoData, "application/json",
                       LineitemContainerType, t))

(* get_grades consumed to its end.  lineitem is [given, id, tag]. *)
GetGradesOf(i, st, sd, plat, e, t, lineitem_id) ==
    IF lineitem_id = <<>>
    THEN AgsOut(st, plat, NoException, NoItem, <<>>, NoResult)
    ELSE Drain(i, st, sd, plat, e, t, <<>>,
               NewGenerator(sd.scope, AddUrlPathEnding(lineitem_id, "results"),
                            ResultContainerType))

GetGrades(i, st, sd, plat, e, t, lineitem) ==
    IF ~CanReadGrades(sd) THEN AgsRaise(st, plat, LtiException)
    ELSE GetGradesOf(i, st, sd, plat, e, t,
                     IF lineitem.given THEN lineitem.id ELSE sd.lineitem)

NoAgs ==
    [sd |-> [scope |-> <<>>, lineitems |-> <<>>, lineitem |-> <<>>],
     plat |-> [items |-> <<>>, size |-> PageSize, style |-> "path"],
     ops |-> <<>>]

NoRegistration ==
    [build |-> [optimize |-> FALSE, json_error |-> "ValueError"],
     keys |-> {}, tools |-> {}, runs |-> <<>>]

----------------------------------------------------------------------------
(* DynamicRegistration.  The requests of a registration go through a       *)
(* requests.Session of their own; a request is [method, url, auth], auth   *)
(* being the registration token sent as bearer ("" when no Authorization   *)
(* header is sent).                                                        *)
(* conf is what the platform answers at the OpenID configuration endpoint: *)
(* conf.json tells whether the body decodes as JSON, conf.keys are the     *)
(* members of the decoded object (of those the code looks for), and        *)
(* conf.issuer is its issuer.  reg is what the registration endpoint       *)
(* answers: reg.json, reg.keys, reg.client_id.                             *)
(* build is the build the code runs in: build.optimize is python -O, which *)
(* compiles assert statements away; build.json_error is what Response.json *)
(* raises on an undecodable body, a "RequestException" (requests from      *)
(* 2.27) or a "ValueError" (before).                                       *)

ConfSpec == "lti-platform-configuration"

ToolSpec == "lti-tool-configuration"

OpenidConfigurationUrl == <<"openid-configuration">>

RegistrationUrl == <<"register">>

(* openid_configuration["registration_endpoint"]: each platform has a      *)
(* registration endpoint of its own.                                       *)
RegistrationEndpointOf(conf) ==
    IF conf.issuer = "iss" THEN RegistrationUrl
    ELSE <<"register", conf.issuer>>

RegRequest(method, url, auth) == [method |-> method, url |-> url, auth |-> auth]

JSONDecodeError == [exc |-> "JSONDecodeError", response |-> NoResponse]

(* What a step of a registration leaves: the requests issued so far, the   *)
(* store, the exception raised, and whether register has returned.         *)
RegOut(wire, keys, tools, err, returned) ==
    [wire |-> wire, keys |-> keys, tools |-> tools, err |-> err,
     returned |-> returned]

(* get_openid_configuration: the GET, then resp.json(). *)
GetOpenidConfiguration(build, endpoint, conf) ==
    [wire |-> <<RegRequest("GET", endpoint, "")>>,
     err |-> IF conf.json THEN NoException
             ELSE IF build.json_error = "RequestException" THEN LtiException
             ELSE JSONDecodeError]

(* generate_key_pair(): a fresh RSA key pair, told from every other by the *)
(* number of the registration that generated it.                           *)
GenerateKeyPair(serial) == serial

(* A get_issuer_keys that generates a key pair whether or not the issuer   *)
(* has one.                                                                *)
GetIssuerKeysRegenerating(keys, issuer_name, serial) ==
    {row \in keys : row.name # issuer_name}
        \cup {[name |-> issuer_name, pair |-> GenerateKeyPair(serial)]}

(* DjangoDynamicRegistration.get_issuer_keys: get_or_create on the name, a *)
(* key pair is generated and saved when the row is new.                    *)
GetIssuerKeys(keys, issuer_name, serial) ==
    IF \E row \in keys : row.name = issuer_name THEN keys
    ELSE keys \cup {[name |-> issuer_name, pair |-> GenerateKeyPair(serial)]}

(* LtiTool.objects.update_or_create(issuer, client_id, defaults): the row  *)
(* of that issuer and client id is replaced, or made.                      *)
UpdateOrCreate(tools, tool) ==
    {row \in tools : ~(row.issuer = tool.issuer
                        /\ row.client_id = tool.client_id)} \cup {tool}

(* DjangoDynamicRegistration.complete_registration: the issuer's keys      *)
(* first, then the tool (update_or_create on issuer and client id).  The   *)
(* registration's tool configuration is subscripted in between; its        *)
(* deployment_id is read with .get ("" stands for a missing one).          *)
CompleteRegistration(wire, keys, tools, conf, reg, serial) ==
    IF ToolSpec \notin reg.keys
    THEN RegOut(wire, GetIssuerKeys(keys, conf.issuer, serial), tools,
                KeyError, FALSE)
    ELSE RegOut(wire, GetIssuerKeys(keys, conf.issuer, serial),
                UpdateOrCreate(tools,
                    [issuer |-> conf.issuer, client_id |-> reg.client_id,
                     tool_key |-> conf.issuer,
                     deployment_ids |-> IF reg.deployment_id = "" THEN <<>>
                                        ELSE <<reg.deployment_id>>]),
                NoException, TRUE)

(* register from the point where the registration POST has been answered: *)
(* response.json() outside any try, then the two assertions, then the      *)
(* hook.                                                                   *)
Registered(build, wire, keys, tools, conf, reg, serial) ==
    IF ~reg.json
    THEN RegOut(wire, keys, tools, JSONDecodeError, FALSE)
    ELSE IF ~build.optimize /\ ConfSpec \notin conf.keys
    THEN RegOut(wire, keys, tools, AssertionError, FALSE)
    ELSE IF ~build.optimize /\ ToolSpec \notin reg.keys
    THEN RegOut(wire, keys, tools, AssertionError, FALSE)
    ELSE CompleteRegistration(wire, keys, tools, conf, reg, serial)

(* A register that posts without the Authorization header. *)
RegisterWithNoAuthorization(build, keys, tools, registration_token, conf, reg, serial, got) ==
    IF got.err.exc # "" THEN RegOut(got.wire, keys, tools, got.err, FALSE)
    ELSE IF "registration_endpoint" \notin conf.keys
    THEN RegOut(got.wire, keys, tools,
                IF build.optimize THEN KeyError ELSE AssertionError, FALSE)
    ELSE Registered(build,
                    Append(got.wire,
                           RegRequest("POST", RegistrationEndpointOf(conf),
                                      "")),
                    keys, tools, conf, reg, serial)

(* register from the point where get_openid_configuration has finished in  *)
(* `got`.                                                                  *)
RegisterWith(build, keys, tools, registration_token, conf, reg, serial, got) ==
    IF got.err.exc # "" THEN RegOut(got.wire, keys, tools, got.err, FALSE)
    ELSE IF "registration_endpoint" \notin conf.keys
    THEN RegOut(got.wire, keys, tools,
                IF build.optimize THEN KeyError ELSE AssertionError, FALSE)
    ELSE Registered(build,
                    Append(got.wire,
                           RegRequest("POST", RegistrationEndpointOf(conf),
                                      registration_token)),
                    keys, tools, conf, reg, serial)

(* register.  endpoint is get_openid_configuration_endpoint(), <<>> when   *)
(* the launch carries none; registration_token is "" for None; serial is   *)
(* the number of this registration.                                        *)
Register(build, keys, tools, endpoint, registration_token, conf, reg, serial) ==
    IF endpoint = <<>> THEN RegOut(<<>>, keys, tools, LtiException, FALSE)
    ELSE RegisterWith(build, keys, tools, registration_token, conf, reg,
                      serial, GetOpenidConfiguration(build, endpoint, conf))

NoHelper == [url |-> <<>>, ending |-> "", done |-> FALSE, out |-> <<>>]

NoPages ==
    [n |-> 0, back |-> 0, gen |-> NewGenerator(<<>>, <<>>, ""), iter |-> 0,
     base |-> 0, yielded |-> <<>>, answers |-> <<>>, outcome |-> "",
     err |-> NoException]

----------------------------------------------------------------------------
(* The inputs of the token specification. *)

Impls == {"memory", "django", "flask"}

(* One scope, two scopes in either order, one scope given twice. *)
ScopeLists ==
    {<<"score">>, <<"lineitem", "score">>, <<"score", "lineitem">>,
     <<"score", "score">>}

ExpiresIn == {-1, 2, 12}

TokenBehaviours ==
    {[mode |-> "ok", e |-> e] : e \in ExpiresIn}
        \cup {[mode |-> m, e |-> -1] : m \in {"non2xx", "badjson", "nokey"}}

----------------------------------------------------------------------------
(* The token specification: one connector, get_access_token called again   *)
(* and again while the clock advances.  calls records each finished call:  *)
(* its arguments, the time, the entry of its scope key before and after,   *)
(* the token endpoint's answer when one was asked for, and the outcome.    *)

CallRecord(op, scopes, t, before, after, r) ==
    [op |-> op, scopes |-> scopes, at |-> t,
     pre_exp |-> ExpiryOf(before.cache, ScopeKey(scopes)),
     post_exp |-> ExpiryOf(after.cache, ScopeKey(scopes)),
     posts |-> TokenPosts(after.http) - TokenPosts(before.http),
     hit |-> after.hit, ret |-> after.ret, err |-> after.err,
     response |-> r]

State == [cache |-> cache, http |-> http, issued |-> issued]

Init ==
    /\ impl \in Impls
    /\ now = 0
    /\ threads = <<>>
    /\ cache = <<>>
    /\ http = <<>>
    /\ issued = 0
    /\ calls = <<>>
    /\ reqs = <<>>
    /\ pg = NoPages
    /\ ags = NoAgs
    /\ dr = NoRegistration
    /\ helper = NoHelper

(* The connector's state becomes the one a call left. *)
Becomes(after) ==
    /\ cache' = after.cache
    /\ http' = after.http
    /\ issued' = after.issued

GetAccessTokenDone(scopes, tk, after) ==
    /\ Becomes(after)
    /\ calls' = Append(calls,
           CallRecord("get_access_token", scopes, now, State, after,
                      IF after.hit THEN NoResponse
                      ELSE TokenResponse(tk, issued + 1)))

CallGetAccessToken(scopes, tk) ==
    /\ Len(calls) < MaxCalls
    /\ GetAccessTokenDone(scopes, tk,
                          GetAccessToken(impl, State, scopes, tk, now))
    /\ UNCHANGED <<impl, now, reqs, pg, ags, dr, helper, threads>>

Tick ==
    /\ now < MaxTime
    /\ now' = now + 1
    /\ UNCHANGED <<impl, cache, http, issued, calls, reqs, pg, ags, dr,
                   helper, threads>>

Next ==
    \/ \E scopes \in ScopeLists, tk \in TokenBehaviours :
          CallGetAccessToken(scopes, tk)
    \/ Tick

Spec == Init /\ [][Next]_vars

Returned(k) == calls[k].err.exc = ""

TokenCalls == {k \in 1..Len(calls) : calls[k].op = "get_access_token"}

(* C1: of two get_access_token calls in a row with identical scope lists,  *)
(* the second made before the entry the first one stored has expired, the  *)
(* second issues no POST to the token endpoint and returns the first's     *)
(* token, so the two calls cause exactly one POST in total.                *)
C1_SecondCallWithinTtlIsServedFromCache ==
    \A i \in TokenCalls, j \in TokenCalls :
        ( /\ j = i + 1
          /\ calls[i].scopes = calls[j].scopes
          /\ Returned(i)
          /\ calls[j].at < calls[i].post_exp )
        => /\ Returned(j)
           /\ calls[j].ret = calls[i].ret
           /\ calls[j].posts = 0
           /\ ~calls[i].hit => calls[i].posts + calls[j].posts = 1

C1_Witness ==
    /\ Len(calls) = 2
    /\ calls[1].scopes = calls[2].scopes
    /\ Returned(1) /\ ~calls[1].hit
    /\ calls[1].at < calls[2].at
    /\ calls[2].at < calls[1].post_exp
    /\ calls[2].hit

(* C2: a token served from the cache has a stored expiry strictly later    *)
(* than the time of the call; a call that finds an entry whose expiry has  *)
(* been reached does not serve it but performs a token exchange, and the   *)
(* expired token is not returned by any later call.                        *)
C2_NeverServedPastExpiry ==
    /\ \A k \in TokenCalls : calls[k].hit => calls[k].pre_exp > calls[k].at
    /\ \A k \in TokenCalls :
          (calls[k].pre_exp # -1 /\ calls[k].pre_exp <= calls[k].at)
          => ~calls[k].hit /\ calls[k].posts = 1
    /\ \A i \in TokenCalls, j \in TokenCalls :
          ( /\ i < j
            /\ Returned(i) /\ Returned(j)
            /\ calls[i].post_exp <= calls[j].at )
          => calls[j].ret # calls[i].ret

C2_Witness ==
    \E k \in TokenCalls :
        /\ calls[k].pre_exp = calls[k].at
        /\ calls[k].at > 0
        /\ ~calls[k].hit
        /\ calls[k].posts = 1

(* C9: a token exchange answered with a non-2xx status or with a body that *)
(* is not JSON makes get_access_token raise LtiServiceException carrying   *)
(* that very response, and no token is returned.                           *)
C9_FailedExchangeRaisesServiceException ==
    \A k \in TokenCalls :
        (~calls[k].hit /\ (~calls[k].response.ok \/ calls[k].response.kind = "garbage"))
        => /\ calls[k].ret = 0
           /\ calls[k].err.exc = "LtiServiceException"
           /\ calls[k].err.response = calls[k].response

----------------------------------------------------------------------------
(* The request specification: one connector, make_service_request called   *)
(* again and again.  reqs records each finished call: what was asked,      *)
(* the token get_access_token gave, the requests it put on the wire, the   *)
(* platform's answer and the outcome.                                      *)

ServiceUrl == <<"service">>

NextUrl == <<"service", "?", "page", "2">>

AnItem == [id |-> <<"service", "/", "1">>, tag |-> "score"]

RequestScopeLists == {<<"score">>}

RequestTokenBehaviours ==
    {[mode |-> "ok", e |-> 12], [mode |-> "ok", e |-> -1],
     [mode |-> "non2xx", e |-> -1], [mode |-> "nokey", e |-> 12]}

(* A URL with an upper-case letter in it. *)
CaseUrl == <<"Items", "?", "page", "2">>

(* A line break in a Link header, between two of its entries. *)
LineBreak == [url |-> <<>>, rel |-> "\n"]

(* The Link headers a service response may carry: none; a next entry; a    *)
(* prev entry and, on a second line, a next entry; a prev entry only; a    *)
(* next entry with an empty URL; a next entry whose URL has an upper-case  *)
(* letter.                                                                 *)
LinkHeaders ==
    {<<>>,
     <<[url |-> NextUrl, rel |-> "next"]>>,
     <<[url |-> ServiceUrl, rel |-> "prev"], LineBreak,
       [url |-> NextUrl, rel |-> "next"]>>,
     <<[url |-> ServiceUrl, rel |-> "prev"]>>,
     <<[url |-> <<>>, rel |-> "next"]>>,
     <<[url |-> CaseUrl, rel |-> "next"]>>}

ServiceResponses ==
    {ServiceResponse(ServiceUrl, ok, kind,
                     IF kind = "json" THEN JsonList(<<AnItem>>) ELSE JsonNone,
                     link) :
        ok \in BOOLEAN, kind \in {"json", "empty", "garbage"},
        link \in LinkHeaders}

InitRequest ==
    /\ impl \in Impls
    /\ now = 0
    /\ threads = <<>>
    /\ cache = <<>>
    /\ http = <<>>
    /\ issued = 0
    /\ calls = <<>>
    /\ reqs = <<>>
    /\ pg = NoPages
    /\ ags = NoAgs
    /\ dr = NoRegistration
    /\ helper = NoHelper

MakeServiceRequestDone(scopes, is_post, sv, after) ==
    /\ Becomes(after)
    /\ reqs' = Append(reqs,
           [scopes |-> scopes, is_post |-> is_post, token |-> after.ret,
            wire |-> SubSeq(after.http, Len(http) + 1, Len(after.http)),
            response |-> sv, err |-> after.err, result |-> after.result])

CallMakeServiceRequest(scopes, is_post, tk, sv) ==
    /\ Len(reqs) < MaxRequests
    /\ MakeServiceRequestDone(scopes, is_post, sv,
           MakeServiceRequest(impl, State, scopes, ServiceUrl, is_post,
                              NoData, "application/json", "application/json",
                              tk, sv, now))
    /\ UNCHANGED <<impl, now, calls, pg, ags, dr, helper, threads>>

NextRequest ==
    \E scopes \in RequestScopeLists, is_post \in BOOLEAN,
       tk \in RequestTokenBehaviours, sv \in ServiceResponses :
        CallMakeServiceRequest(scopes, is_post, tk, sv)

SpecRequest == InitRequest /\ [][NextRequest]_vars

ServiceRequestsOf(k) ==
    {n \in 1..Len(reqs[k].wire) : reqs[k].wire[n].url # TokenUrl}

(* C10: make_service_request sends the token get_access_token gave as the  *)
(* bearer token of the service request; a service response that is not 2xx *)
(* makes it raise LtiServiceException and return nothing; a result is      *)
(* returned only for a 2xx response.                                       *)
C10_BearerTokenAndNon2xxRaises ==
    \A k \in 1..Len(reqs) :
        /\ \A n \in ServiceRequestsOf(k) :
              reqs[k].token # 0 /\ reqs[k].wire[n].auth = reqs[k].token
        /\ (ServiceRequestsOf(k) # {} /\ ~reqs[k].response.ok)
           => /\ reqs[k].err.exc = "LtiServiceException"
              /\ ~reqs[k].result.returned
        /\ reqs[k].result.returned
           => ServiceRequestsOf(k) # {} /\ reqs[k].response.ok

----------------------------------------------------------------------------
(* The pagination specification.  The platform holds pages 1..n; page k    *)
(* (k < n) links to page k + 1 with rel="next", every page after the first *)
(* also links to the page before it with rel="prev", and page n has no     *)
(* next link (back = 0) or one back to page `back`.  A consumer calls      *)
(* get_paginated_data on the first page and then next() on the generator,  *)
(* one page at a time; any request may be answered with a failure.         *)
(* pg.yielded and pg.answers are what the current iteration has yielded    *)
(* and the service responses it has received; pg.base is the length of http*)
(* when it began.                                                          *)

PageItem(k) == [id |-> <<"Items", "/", Digits[k]>>, tag |-> "score"]

NextOf(n, back, k) == IF k < n THEN k + 1 ELSE back

PageLink(n, back, k) ==
    (IF k > 1 THEN <<[url |-> PageUrl(k - 1), rel |-> "prev"]>> ELSE <<>>)
        \o (IF NextOf(n, back, k) # 0
            THEN <<[url |-> PageUrl(NextOf(n, back, k)), rel |-> "next"]>>
            ELSE <<>>)

(* The platform's answer to a GET of url: the page, a failure when ok is   *)
(* false or the URL is none of its pages.                                  *)
PageResponse(n, back, url, ok) ==
    LET k == PageOf(url)
    IN  IF ok /\ k \in 1..n
        THEN ServiceResponse(url, TRUE, "json", JsonList(<<PageItem(k)>>),
                             PageLink(n, back, k))
        ELSE ServiceResponse(url, FALSE, "json", JsonNone, <<>>)

PagesImpls == {"memory", "django"}

PagesTokenBehaviours ==
    {[mode |-> "ok", e |-> 12], [mode |-> "ok", e |-> -1],
     [mode |-> "non2xx", e |-> -1]}

InitPages ==
    /\ impl \in PagesImpls
    /\ now = 0
    /\ threads = <<>>
    /\ cache = <<>>
    /\ http = <<>>
    /\ issued = 0
    /\ calls = <<>>
    /\ reqs = <<>>
    /\ \E n \in 1..MaxPages, back \in 0..MaxPages :
          /\ back <= n
          /\ pg = [NoPages EXCEPT !.n = n, !.back = back]
          /\ ags = NoAgs
          /\ dr = NoRegistration
          /\ helper = NoHelper

(* A get_paginated_data whose generator goes on from where the generator   *)
(* of the call before it had got to.                                       *)
CallGetPaginatedDataResuming ==
    /\ pg.iter < MaxIterations
    /\ pg' = [pg EXCEPT !.gen = IF pg.gen.pc = "yield" THEN pg.gen
                                ELSE NewGenerator(<<"lineitem">>, PageUrl(1),
                                                  "application/json"),
                        !.iter = @ + 1, !.base = Len(http),
                        !.yielded = <<>>, !.answers = <<>>,
                        !.outcome = "", !.err = NoException]
    /\ UNCHANGED <<impl, now, cache, http, issued, calls, reqs, ags, dr,
                   helper, threads>>

(* get_paginated_data(scopes, url): the generator is made, no code of its  *)
(* body has run yet.                                                       *)
CallGetPaginatedData ==
    /\ pg.iter < MaxIterations
    /\ pg' = [pg EXCEPT !.gen = NewGenerator(<<"lineitem">>, PageUrl(1),
                                          "application/json"),
                        !.iter = @ + 1, !.base = Len(http),
                        !.yielded = <<>>, !.answers = <<>>,
                        !.outcome = "", !.err = NoException]
    /\ UNCHANGED <<impl, now, cache, http, issued, calls, reqs, ags, dr,
                   helper, threads>>

(* next() on the generator of the current iteration. *)
PagesNextDone(sv, after) ==
    /\ Becomes(after)
    /\ pg' = [pg EXCEPT
           !.gen = after.gen,
           !.yielded = IF after.out = "yield" THEN Append(@, after.value)
                       ELSE @,
           !.answers = IF Len(after.http) > Len(http)
                          /\ Last(after.http).url # TokenUrl
                       THEN Append(@, sv) ELSE @,
           !.outcome = IF after.out = "yield" THEN "" ELSE after.out,
           !.err = after.err]

PagesNext(tk, ok) ==
    /\ pg.iter > 0
    /\ pg.gen.pc # "done"
    /\ Len(pg.yielded) < MaxYields
    /\ PagesNextDone(PageResponse(pg.n, pg.back, GeneratorUrl(pg.gen), ok),
           GetPaginatedDataNext(impl, State, pg.gen, tk,
               PageResponse(pg.n, pg.back, GeneratorUrl(pg.gen), ok), now))
    /\ UNCHANGED <<impl, now, calls, reqs, ags, dr, helper, threads>>

NextPages ==
    \/ CallGetPaginatedData
    \/ \E tk \in PagesTokenBehaviours, ok \in BOOLEAN : PagesNext(tk, ok)

SpecPages == InitPages /\ [][NextPages]_vars

(* The service requests the current iteration has issued, in order. *)
RECURSIVE ServiceRequestsIn(_)
ServiceRequestsIn(h) ==
    IF h = <<>> THEN <<>>
    ELSE IF Head(h).url = TokenUrl THEN ServiceRequestsIn(Tail(h))
    ELSE <<Head(h)>> \o ServiceRequestsIn(Tail(h))

IterationRequests == ServiceRequestsIn(SubSeq(http, pg.base + 1, Len(http)))

(* C5: over a chain of N pages, each of the first N - 1 linking to the     *)
(* next and the last carrying no next link, an iteration that runs to its  *)
(* end has yielded exactly the N pages in chain order and has issued       *)
(* exactly N service requests, one per page, in that order.                *)
C5_ChainOfNPagesYieldsNPages ==
    (pg.back = 0 /\ pg.outcome = "stop")
    => /\ Len(pg.yielded) = pg.n
       /\ \A k \in 1..pg.n :
             /\ pg.yielded[k].body = JsonList(<<PageItem(k)>>)
             /\ pg.yielded[k].returned
       /\ Len(IterationRequests) = pg.n
       /\ \A k \in 1..pg.n :
             /\ IterationRequests[k].url = PageUrl(k)
             /\ IterationRequests[k].method = "GET"
       /\ pg.gen.pc = "done"

C5_Witness ==
    /\ pg.back = 0
    /\ pg.n = 3
    /\ pg.outcome = "stop"
    /\ Len(pg.yielded) = 3

(* C8: when a page request of an iteration is answered with a failure, the *)
(* iteration raises at that request: it is the last request the iteration  *)
(* ever issues, every page before it has been yielded and nothing after.   *)
C8_FailedPageAbortsIteration ==
    \A k \in 1..Len(pg.answers) :
        ~pg.answers[k].ok
        => /\ pg.outcome = "raise"
           /\ pg.gen.pc = "done"
           /\ k = Len(pg.answers)
           /\ Len(IterationRequests) = k
           /\ Len(pg.yielded) = k - 1
           /\ \A m \in 1..(k - 1) : pg.yielded[m].body = pg.answers[m].body

C8_Witness ==
    /\ Len(pg.answers) = 3
    /\ ~pg.answers[3].ok
    /\ pg.outcome = "raise"
    /\ Len(pg.yielded) = 2

----------------------------------------------------------------------------
(* The specification of AssignmentsGradesService: a launch with its AGS    *)
(* claim, a platform holding line items, and up to MaxOps operations of    *)
(* the service, one after the other, over one connector.                   *)

AgsScopeLists ==
    {<<"score">>, <<"lineitem", "score">>, <<"lineitem.readonly">>,
     <<"result.readonly", "score">>}

IdStyles == {"path", "query", "query2"}

Environments ==
    {[tk |-> [mode |-> "ok", e |-> 12], pb |-> "ok"],
     [tk |-> [mode |-> "non2xx", e |-> -1], pb |-> "ok"],
     [tk |-> [mode |-> "ok", e |-> 12], pb |-> "fail"],
     [tk |-> [mode |-> "ok", e |-> 12], pb |-> "bad"],
     [tk |-> [mode |-> "ok", e |-> 12], pb |-> "bad2"]}

(* The line items a platform holds at the start: none, or three on two   *)
(* pages, the first two with the same tag.                                 *)
Holdings(style) ==
    {<<>>,
     <<[id |-> ItemId(style, 1), tag |-> "a"],
       [id |-> ItemId(style, 2), tag |-> "a"],
       [id |-> ItemId(style, 3), tag |-> "b"]>>}

(* The lineitem argument of put_grade and get_grades: None, a line item    *)
(* with an id, a line item with a tag only, an empty line item.            *)
LineitemArgs(style) ==
    {[given |-> FALSE, id |-> <<>>, tag |-> ""],
     [given |-> TRUE, id |-> ItemId(style, 1), tag |-> ""],
     [given |-> TRUE, id |-> <<>>, tag |-> "a"],
     [given |-> TRUE, id |-> <<>>, tag |-> ""]}

NewLineitems == {[id |-> <<>>, tag |-> "a"], [id |-> <<>>, tag |-> "c"],
                 [id |-> <<>>, tag |-> ""],
                 [id |-> <<"Items", "/", "1">>, tag |-> "c"],
                 [id |-> <<>>, tag |-> "", resource_link_id |-> "link",
                  resource_id |-> ""]}

(* The values of find_by: the four the method knows and one it does not. *)
FindBys == {"tag", "id", "resource_link_id", "resource_id", "name"}

NoCondition == [given |-> FALSE, prop_name |-> "", prop_value |-> ""]

(* A condition: the line items with the tag b. *)
TagIsB == [given |-> TRUE, prop_name |-> "tag", prop_value |-> "b"]

(* The calls of find_or_create_lineitem: without a condition, every new    *)
(* line item (by resource link id and resource id, those without id and    *)
(* tag); with the condition, a new line item that has no tag and a find_by *)
(* the method knows or does not.                                           *)
FindOrCreateCalls ==
    {c \in [new_lineitem : NewLineitems, find_by : FindBys,
            condition : {NoCondition, TagIsB}] :
        /\ c.find_by \in {"resource_link_id", "resource_id"}
           => c.new_lineitem.id = <<>> /\ c.new_lineitem.tag = ""
        /\ c.condition.given
           => /\ c.new_lineitem = [id |-> <<>>, tag |-> ""]
              /\ c.find_by \in {"tag", "name"}}

InitAgs ==
    /\ impl \in PagesImpls
    /\ now = 0
    /\ threads = <<>>
    /\ cache = <<>>
    /\ http = <<>>
    /\ issued = 0
    /\ calls = <<>>
    /\ reqs = <<>>
    /\ pg = NoPages
    /\ dr = NoRegistration
    /\ helper = NoHelper
    /\ \E scope \in AgsScopeLists, style \in IdStyles, bound \in BOOLEAN :
          \E items \in Holdings(style) :
             ags = [sd |-> [scope |-> scope, lineitems |-> LineitemsUrl,
                            lineitem |-> IF bound THEN ItemId(style, 2)
                                         ELSE <<>>],
                    plat |-> [items |-> items, size |-> PageSize,
                              style |-> style],
                    ops |-> <<>>]

(* What the platform answered to the service requests of an operation,   *)
(* in order: the type of the body, or "failed" for a non-2xx response.     *)
AnswerOf(r) == IF r.ok THEN r.body.type ELSE "failed"

RECURSIVE Answers(_, _, _)
Answers(plat, pb, wire) ==
    IF wire = <<>> THEN <<>>
    ELSE (IF Head(wire).url = TokenUrl THEN <<>>
          ELSE <<AnswerOf(AgsResponse(plat, pb, Head(wire).method,
                                      Head(wire).url, Head(wire).data))>>)
         \o Answers(plat, pb, Tail(wire))

(* What is kept of an operation: its name and arguments, the line items    *)
(* the platform held before it, the requests it issued, what the platform  *)
(* answered, and its outcome.                                              *)
AgsRecord(op, arg, find_by, e, out) ==
    [op |-> op, arg |-> arg, find_by |-> find_by, pre |-> ags.plat.items,
     wire |-> SubSeq(out.http, Len(http) + 1, Len(out.http)),
     answers |-> Answers(ags.plat, e.pb,
                         SubSeq(out.http, Len(http) + 1, Len(out.http))),
     err |-> out.err, item |-> out.item, items |-> out.items,
     result |-> out.result]

AgsDone(op, arg, find_by, e, out) ==
    /\ Becomes(out)
    /\ ags' = [ags EXCEPT !.plat = out.plat,
                          !.ops = Append(@, AgsRecord(op, arg, find_by, e,
                                                      out))]
    /\ UNCHANGED <<impl, now, calls, reqs, pg, dr, helper, threads>>

UrlArg(url) == [given |-> url # <<>>, id |-> url, tag |-> ""]

TagArg(tag) == [given |-> TRUE, id |-> <<>>, tag |-> tag]

CallPutGrade(lineitem, e) ==
    /\ Len(ags.ops) < MaxOps
    /\ AgsDone("put_grade", lineitem, "", e,
               PutGrade(impl, State, ags.sd, ags.plat, e, now, lineitem))

CallGetLineitem(lineitem_url, e) ==
    /\ Len(ags.ops) < MaxOps
    /\ AgsDone("get_lineitem", UrlArg(lineitem_url), "", e,
               GetLineitem(impl, State, ags.sd, ags.plat, e, now, lineitem_url))

CallGetLineitemsPage(lineitems_url, e) ==
    /\ Len(ags.ops) < MaxOps
    /\ AgsDone("get_lineitems_page", UrlArg(lineitems_url), "", e,
               GetLineitemsPage(impl, State, ags.sd, ags.plat, e, now,
                                lineitems_url))

CallGetLineitems(e) ==
    /\ Len(ags.ops) < MaxOps
    /\ AgsDone("get_lineitems", UrlArg(<<>>), "", e,
               GetLineitems(impl, State, ags.sd, ags.plat, e, now))

CallFindLineitemByTag(tag, e) ==
    /\ Len(ags.ops) < MaxOps
    /\ AgsDone("find_lineitem_by_tag", TagArg(tag), "", e,
               FindLineitem(impl, State, ags.sd, ags.plat, e, now, "tag", tag))

CallFindLineitemById(ln_id, e) ==
    /\ Len(ags.ops) < MaxOps
    /\ AgsDone("find_lineitem_by_id", UrlArg(ln_id), "", e,
               FindLineitem(impl, State, ags.sd, ags.plat, e, now, "id", ln_id))

(* An operation is kept under the name "find_or_create_lineitem" when no   *)
(* condition was given and with "(condition)" added when one was.          *)
CallFindOrCreateLineitem(new_lineitem, find_by, condition, e) ==
    /\ Len(ags.ops) < MaxOps
    /\ AgsDone(IF condition.given THEN "find_or_create_lineitem(condition)"
               ELSE "find_or_create_lineitem",
               [given |-> TRUE] @@ new_lineitem, find_by, e,
               FindOrCreateLineitemWith(impl, State, ags.sd, ags.plat, e, now,
                                        new_lineitem, find_by, condition))

CallCreateLineitem(new_lineitem, e) ==
    /\ Len(ags.ops) < MaxOps
    /\ AgsDone("create_lineitem",
               [given |-> TRUE, id |-> new_lineitem.id,
                tag |-> new_lineitem.tag], "", e,
               CreateLineitem(impl, State, ags.sd, ags.plat, e, now,
                              new_lineitem))

CallGetGrades(lineitem, e) ==
    /\ Len(ags.ops) < MaxOps
    /\ AgsDone("get_grades", lineitem, "", e,
               GetGrades(impl, State, ags.sd, ags.plat, e, now, lineitem))

NextAgs ==
    \/ \E lineitem \in LineitemArgs(ags.plat.style), e \in Environments :
          CallPutGrade(lineitem, e)
    \/ \E lineitem_url \in {<<>>, ItemId(ags.plat.style, 1)},
          e \in Environments :
          CallGetLineitem(lineitem_url, e)
    \/ \E lineitems_url \in {<<>>, PageUrl(2)}, e \in Environments :
          CallGetLineitemsPage(lineitems_url, e)
    \/ \E e \in Environments : CallGetLineitems(e)
    \/ \E tag \in {"a", "b"}, e \in Environments :
          CallFindLineitemByTag(tag, e)
    \/ \E e \in Environments :
          CallFindLineitemById(ItemId(ags.plat.style, 2), e)
    \/ \E c \in FindOrCreateCalls, e \in Environments :
          CallFindOrCreateLineitem(c.new_lineitem, c.find_by, c.condition, e)
    \/ \E e \in Environments :
          CallCreateLineitem([id |-> <<>>, tag |-> "a"], e)
    \/ \E lineitem \in LineitemArgs(ags.plat.style), e \in Environments :
          CallGetGrades(lineitem, e)

SpecAgs == InitAgs /\ [][NextAgs]_vars

OpsOf(name) == {k \in 1..Len(ags.ops) : ags.ops[k].op = name}

OpReturned(k) == ags.ops[k].err = NoException

HasTag(items, tag) == \E k \in 1..Len(items) : items[k].tag = tag

HasId(items, id) == \E k \in 1..Len(items) : items[k].id = id

CreationPosts(wire) ==
    Cardinality({k \in 1..Len(wire) :
                    wire[k].method = "POST" /\ wire[k].url = LineitemsUrl})

(* Two find_or_create_lineitem calls, one directly after the other, with   *)
(* the same tag, which no line item of the platform had before the first.  *)
SameTagTwice(k) ==
    /\ k \in OpsOf("find_or_create_lineitem")
    /\ k + 1 \in OpsOf("find_or_create_lineitem")
    /\ ags.ops[k].find_by = "tag"
    /\ ags.ops[k + 1].find_by = "tag"
    /\ ags.ops[k].arg.tag = ags.ops[k + 1].arg.tag
    /\ ~HasTag(ags.ops[k].pre, ags.ops[k].arg.tag)
    /\ OpReturned(k)
    /\ OpReturned(k + 1)

(* C4: two sequential find_or_create_lineitem calls with the same tag,     *)
(* which no line item had at the start, return line items with the same    *)
(* id and issue one creation POST to the lineitems URL between them (the   *)
(* platform lists every line item it has created).                         *)
C4_FindOrCreateTwiceCreatesOnce ==
    \A k \in 1..Len(ags.ops) :
        SameTagTwice(k)
        => /\ ags.ops[k].item.id # <<>>
           /\ ags.ops[k].item.id = ags.ops[k + 1].item.id
           /\ ags.ops[k].item.tag = ags.ops[k].arg.tag
           /\ CreationPosts(ags.ops[k].wire)
                + CreationPosts(ags.ops[k + 1].wire) = 1

(* The two calls have returned, on a platform that held other line items. *)
C4_Witness ==
    /\ SameTagTwice(1)
    /\ ags.ops[1].pre # <<>>
    /\ CreationPosts(ags.ops[1].wire) = 1

(* The URL of the scores of a line item: "/scores" added to the path of    *)
(* its id (no second slash after a path ending in one), the query of the   *)
(* id kept whole behind it.                                                *)
ScoresUrl(id) ==
    IF "?" \in Range(id)
    THEN UpTo(id, "?")
            \o (IF EndsWithSlash(UpTo(id, "?")) THEN <<>> ELSE <<"/">>)
            \o <<"scores", "?">> \o AfterFirst(id, "?")
    ELSE id \o (IF EndsWithSlash(id) THEN <<>> ELSE <<"/">>) \o <<"scores">>

(* The id of the line item a put_grade is for, when that line item exists  *)
(* on the platform: the id given, or the id of the first line item with    *)
(* the tag given; <<>> otherwise.                                          *)
ExistingId(rec) ==
    IF ~rec.arg.given THEN <<>>
    ELSE IF rec.arg.id # <<>>
    THEN IF HasId(rec.pre, rec.arg.id) THEN rec.arg.id ELSE <<>>
    ELSE IF rec.arg.tag # "" /\ HasTag(rec.pre, rec.arg.tag)
    THEN FirstMatch("tag", rec.arg.tag, rec.pre).id
    ELSE <<>>

PostsIn(wire) ==
    {k \in 1..Len(wire) : wire[k].method = "POST" /\ wire[k].url # TokenUrl}

(* C6: a put_grade that returns, for a line item that exists on the        *)
(* platform (given with its id, or found by its tag), has issued exactly   *)
(* one service POST, to the scores URL of that line item's id, with        *)
(* Content-Type application/vnd.ims.lis.v1.score+json, and returns the     *)
(* body the platform answered with.                                        *)
C6_PutGradePostsOnceToScoresUrl ==
    \A k \in OpsOf("put_grade") :
        (OpReturned(k) /\ ExistingId(ags.ops[k]) # <<>>)
        => /\ Cardinality(PostsIn(ags.ops[k].wire)) = 1
           /\ \A j \in PostsIn(ags.ops[k].wire) :
                 /\ ags.ops[k].wire[j].url = ScoresUrl(ExistingId(ags.ops[k]))
                 /\ ags.ops[k].wire[j].ctype = ScoreType
           /\ ags.ops[k].result.returned
           /\ ags.ops[k].result.body = JsonDict(AReceipt)

(* Whether the launch's scope list lacks the scope an operation needs. *)
LacksScope(op, sd) ==
    CASE op = "put_grade" -> ~CanPutGrade(sd)
      [] op = "create_lineitem" -> ~CanCreateLineitem(sd)
      [] op = "get_grades" -> ~CanReadGrades(sd)
      [] OTHER -> ~CanReadLineitem(sd)

(* C7: an operation of the service whose needed scope is missing from the  *)
(* launch's scope list raises LtiException and has issued no HTTP request  *)
(* (token exchange or service call).                                       *)
C7_MissingScopeFailsBeforeAnyRequest ==
    \A k \in 1..Len(ags.ops) :
        LacksScope(ags.ops[k].op, ags.sd)
        => /\ ags.ops[k].err = LtiException
           /\ ags.ops[k].wire = <<>>

----------------------------------------------------------------------------
(* The specification of dynamic registration: up to MaxRuns runs of        *)
(* register, one after the other, against one store.                       *)

Builds ==
    [optimize : BOOLEAN, json_error : {"RequestException", "ValueError"}]

(* What the platform answers at the OpenID configuration endpoint; a body *)
(* that does not decode has no members.                                    *)
Configurations ==
    {c \in [json : BOOLEAN,
            keys : {{}, {"registration_endpoint"}, {ConfSpec},
                    {"registration_endpoint", ConfSpec}},
            issuer : {"iss", "iss2"}] :
        ~c.json => (c.keys = {} /\ c.issuer = "iss")}

(* What the registration endpoint answers: deployment_id is that of the    *)
(* tool configuration, "" when the tool configuration has none.            *)
Registrations ==
    {r \in [json : BOOLEAN, keys : {{}, {ToolSpec}}, client_id : {"client"},
            deployment_id : {"", "dep"}] :
        /\ ~r.json => r.keys = {}
        /\ ToolSpec \notin r.keys => r.deployment_id = ""}

InitReg ==
    /\ impl = "django"
    /\ now = 0
    /\ threads = <<>>
    /\ cache = <<>>
    /\ http = <<>>
    /\ issued = 0
    /\ calls = <<>>
    /\ reqs = <<>>
    /\ pg = NoPages
    /\ ags = NoAgs
    /\ \E build \in Builds : dr = [NoRegistration EXCEPT !.build = build]
    /\ helper = NoHelper

RegisterDone(endpoint, registration_token, conf, reg, out) ==
    /\ dr' = [dr EXCEPT
                !.keys = out.keys,
                !.tools = out.tools,
                !.runs = Append(@, [endpoint |-> endpoint,
                                    registration_token |-> registration_token,
                                    conf |-> conf, reg |-> reg,
                                    wire |-> out.wire, err |-> out.err,
                                    returned |-> out.returned,
                                    keys_before |-> dr.keys,
                                    keys_after |-> out.keys,
                                    tools_before |-> dr.tools,
                                    tools_after |-> out.tools])]
    /\ UNCHANGED <<impl, now, cache, http, issued, calls, reqs, pg, ags,
                   helper, threads>>

CallRegister(endpoint, registration_token, conf, reg) ==
    /\ Len(dr.runs) < MaxRuns
    /\ RegisterDone(endpoint, registration_token, conf, reg,
                    Register(dr.build, dr.keys, dr.tools, endpoint,
                             registration_token, conf, reg,
                             Len(dr.runs) + 1))

NextReg ==
    \E endpoint \in {<<>>, OpenidConfigurationUrl},
       registration_token \in {"", "regtoken"},
       conf \in Configurations, reg \in Registrations :
        CallRegister(endpoint, registration_token, conf, reg)

SpecReg == InitReg /\ [][NextReg]_vars

RegistrationPosts(wire) ==
    {k \in 1..Len(wire) : wire[k].method = "POST"}

(* C3: a register() whose OpenID configuration lacks the                   *)
(* lti-platform-configuration claim fails, and has issued no POST to the   *)
(* registration endpoint.                                                  *)
C3_NoPostWithoutPlatformConfiguration ==
    \A k \in 1..Len(dr.runs) :
        (/\ dr.runs[k].endpoint # <<>>
         /\ dr.runs[k].conf.json
         /\ ConfSpec \notin dr.runs[k].conf.keys)
        => /\ dr.runs[k].err # NoException
           /\ RegistrationPosts(dr.runs[k].wire) = {}

----------------------------------------------------------------------------
(* Claims on the cache's time to live and on the cache key. *)

(* A call that exchanged and stored a token. *)
Stored(k) == k \in TokenCalls /\ Returned(k) /\ ~calls[k].hit

(* expires_in of the token response of call k, a missing field being 0. *)
ExpiresInOf(k) ==
    IF calls[k].response.expires_in = -1 THEN 0
    ELSE calls[k].response.expires_in

(* C11: an entry cached from a token response with expires_in = e (0 when  *)
(* the field is missing) stops being served exactly max(1, e - 10) seconds *)
(* after it was stored, in every cache implementation.                     *)
C11_TtlIsExpiresInLessTenAtLeastOne ==
    \A k \in 1..Len(calls) :
        Stored(k)
        => calls[k].post_exp = calls[k].at + Max(1, ExpiresInOf(k) - 10)

Count(x, s) == Cardinality({k \in 1..Len(s) : s[k] = x})

IsPermutation(s, u) ==
    /\ Len(s) = Len(u)
    /\ \A k \in 1..Len(s) : Count(s[k], s) = Count(s[k], u)

(* How many token POSTs the calls up to call k have issued: the position   *)
(* in http of the token request of call k, when it issued one.             *)
RECURSIVE PostsThrough(_)
PostsThrough(k) == IF k = 0 THEN 0 ELSE PostsThrough(k - 1) + calls[k].posts

ScopeParameterOf(k) == http[PostsThrough(k)].data.scope

(* C12: for scope lists that are permutations of each other the cache key  *)
(* and the scope parameter sent to the token endpoint are the same, so a   *)
(* token cached under one ordering is served for the other.                *)
C12_ScopeOrderDoesNotMatter ==
    \A i \in TokenCalls, j \in TokenCalls :
        IsPermutation(calls[i].scopes, calls[j].scopes)
        => /\ (calls[i].posts = 1 /\ calls[j].posts = 1)
                => ScopeParameterOf(i) = ScopeParameterOf(j)
           /\ j = i + 1 => calls[j].pre_exp = calls[i].post_exp
           /\ (j = i + 1 /\ Returned(i) /\ calls[j].at < calls[i].post_exp)
                => /\ calls[j].hit
                   /\ calls[j].ret = calls[i].ret
                   /\ calls[j].posts = 0

(* A token stored under one ordering is served under another. *)
C12_Witness ==
    /\ Len(calls) = 2
    /\ calls[1].scopes # calls[2].scopes
    /\ IsPermutation(calls[1].scopes, calls[2].scopes)
    /\ Stored(1)
    /\ calls[2].hit

(* C13: scope lists with the same set of scopes, however often a scope is  *)
(* repeated, share one cache entry and one scope parameter: the second of  *)
(* two such calls in a row, made before the first's entry has expired, is  *)
(* served from the cache.                                                  *)
C13_RepeatedScopesShareTheEntry ==
    \A i \in TokenCalls, j \in TokenCalls :
        ( /\ j = i + 1
          /\ Range(calls[i].scopes) = Range(calls[j].scopes)
          /\ Returned(i)
          /\ calls[j].at < calls[i].post_exp )
        => /\ calls[j].hit
           /\ calls[j].ret = calls[i].ret
           /\ calls[j].posts = 0

----------------------------------------------------------------------------
(* Claims on the operations of AssignmentsGradesService. *)

(* The positions, in the platform's listing before operation rec, of the   *)
(* line items that the lookup of rec is for: those with the tag given,     *)
(* or, looked up by id, with the id given.                                 *)
Listed(rec) ==
    {k \in 1..Len(rec.pre) :
        IF rec.find_by = "id" THEN rec.pre[k].id = rec.arg.id
        ELSE IF rec.find_by = "resource_link_id"
        THEN ResourceLinkIdOf(rec.pre[k]) = ResourceLinkIdOf(rec.arg)
        ELSE IF rec.find_by = "resource_id"
        THEN ResourceIdOf(rec.pre[k]) = ResourceIdOf(rec.arg)
        ELSE rec.pre[k].tag = rec.arg.tag}

(* The new line item an operation was called with. *)
NewLineitemOf(rec) == [f \in DOMAIN rec.arg \ {"given"} |-> rec.arg[f]]

FirstListed(rec) ==
    rec.pre[CHOOSE k \in Listed(rec) : \A j \in Listed(rec) : k <= j]

(* C14: a find_or_create_lineitem that returns has, when the listing held  *)
(* a line item matching the lookup, returned the first such item as listed *)
(* and issued no creation POST; otherwise it has issued exactly one        *)
(* creation POST, carrying the new line item, and returned the line item   *)
(* of the POST's response.  Either way the result is a line item, not      *)
(* None.                                                                   *)
C14_FindOrCreateFindsOrCreatesOnce ==
    \A k \in OpsOf("find_or_create_lineitem") :
        OpReturned(k)
        => /\ ags.ops[k].item # NoItem
           /\ Listed(ags.ops[k]) # {}
                => /\ ags.ops[k].item = FirstListed(ags.ops[k])
                   /\ CreationPosts(ags.ops[k].wire) = 0
           /\ Listed(ags.ops[k]) = {}
                => /\ CreationPosts(ags.ops[k].wire) = 1
                   /\ \A j \in PostsIn(ags.ops[k].wire) :
                         ags.ops[k].wire[j].data.item
                            = NewLineitemOf(ags.ops[k])
                   /\ ags.ops[k].item
                        = [NewLineitemOf(ags.ops[k]) EXCEPT
                             !.id = ItemId(ags.plat.style,
                                           Len(ags.ops[k].pre) + 1)]

(* One call has created, the next has found. *)
C14_Witness ==
    /\ Len(ags.ops) = 2
    /\ ags.ops[1].op = "find_or_create_lineitem"
    /\ ags.ops[2].op = "find_or_create_lineitem"
    /\ OpReturned(1) /\ OpReturned(2)
    /\ Listed(ags.ops[1]) = {}
    /\ Listed(ags.ops[2]) # {}
    /\ ags.ops[1].pre # <<>>

(* The URL of the results of a line item: "/results" added to the path of  *)
(* its id, the query of the id kept whole behind it.                       *)
ResultsUrl(id) ==
    IF "?" \in Range(id)
    THEN UpTo(id, "?")
            \o (IF EndsWithSlash(UpTo(id, "?")) THEN <<>> ELSE <<"/">>)
            \o <<"results", "?">> \o AfterFirst(id, "?")
    ELSE id \o (IF EndsWithSlash(id) THEN <<>> ELSE <<"/">>) \o <<"results">>

(* The line item id a get_grades is for: that of the line item given, or   *)
(* else the launch-bound one; <<>> when there is none.                     *)
GradesId(rec) == IF rec.arg.given THEN rec.arg.id ELSE ags.sd.lineitem

ServiceRequestsOn(wire) ==
    {k \in 1..Len(wire) : wire[k].url # TokenUrl}

(* C15: get_grades without the result.readonly scope raises LtiException   *)
(* and issues no request; with the scope and no line item id it yields     *)
(* nothing and issues no request; with the scope and a line item id, a     *)
(* full iteration that ends normally has requested the results URL of that *)
(* id first, then each page the previous one linked to, and has yielded    *)
(* the entries of the pages in order, unmodified.                          *)
C15_GetGradesYieldsEveryResult ==
    \A k \in OpsOf("get_grades") :
        /\ ~CanReadGrades(ags.sd)
             => ags.ops[k].err = LtiException /\ ags.ops[k].wire = <<>>
        /\ (CanReadGrades(ags.sd) /\ GradesId(ags.ops[k]) = <<>>)
             => /\ OpReturned(k)
                /\ ags.ops[k].items = <<>>
                /\ ags.ops[k].wire = <<>>
        /\ (CanReadGrades(ags.sd) /\ GradesId(ags.ops[k]) # <<>>
                /\ OpReturned(k))
             => /\ ags.ops[k].items = <<AResult, AnotherResult>>
                /\ Cardinality(ServiceRequestsOn(ags.ops[k].wire)) = 2
                /\ \A j \in ServiceRequestsOn(ags.ops[k].wire) :
                      /\ ags.ops[k].wire[j].method = "GET"
                      /\ ags.ops[k].wire[j].url
                            = IF j = Len(ags.ops[k].wire)
                              THEN ResultsUrl(GradesId(ags.ops[k]))
                                        \o <<"page2">>
                              ELSE ResultsUrl(GradesId(ags.ops[k]))

ScorePosts(wire) ==
    {j \in 1..Len(wire) : wire[j].method = "POST" /\ wire[j].ctype = ScoreType}

ListGets(wire) ==
    {j \in 1..Len(wire) : wire[j].method = "GET" /\ PageOf(wire[j].url) # 0}

(* The line item id a put_grade should post the score for: the id of the   *)
(* line item given; for a line item given without an id, the id of the     *)
(* line item find-or-create gives (the first listed with the tag, or the   *)
(* one created); with no line item given, the launch-bound one.            *)
ResolvedId(rec) ==
    IF ~rec.arg.given THEN ags.sd.lineitem
    ELSE IF rec.arg.id # <<>> THEN rec.arg.id
    ELSE IF Listed(rec) # {} THEN FirstListed(rec).id
    ELSE ItemId(ags.plat.style, Len(rec.pre) + 1)

(* C16: put_grade (with the score scope) posts the score for the line item *)
(* given, whether or not the launch has one of its own; a line item given  *)
(* without an id goes through find-or-create first; with no line item      *)
(* given the launch-bound one is used; with neither, LtiException is       *)
(* raised and no HTTP request is issued.                                   *)
C16_PutGradeResolvesTheLineitem ==
    \A k \in OpsOf("put_grade") :
        CanPutGrade(ags.sd)
        => /\ (~ags.ops[k].arg.given /\ ags.sd.lineitem = <<>>)
                => /\ ags.ops[k].err = LtiException
                   /\ ags.ops[k].wire = <<>>
           /\ \A j \in ScorePosts(ags.ops[k].wire) :
                 ags.ops[k].wire[j].url
                    = AddUrlPathEnding(ResolvedId(ags.ops[k]), "scores")
           /\ OpReturned(k) => Cardinality(ScorePosts(ags.ops[k].wire)) = 1
           /\ (ags.ops[k].arg.given /\ ags.ops[k].arg.id = <<>>)
                => \A j \in ScorePosts(ags.ops[k].wire) :
                      \E g \in ListGets(ags.ops[k].wire) : g < j
           /\ (~ags.ops[k].arg.given \/ ags.ops[k].arg.id # <<>>)
                => /\ ListGets(ags.ops[k].wire) = {}
                   /\ CreationPosts(ags.ops[k].wire) = 0

(* A line item was given to a launch that has another one of its own. *)
C16_Witness ==
    \E k \in OpsOf("put_grade") :
        /\ OpReturned(k)
        /\ ags.ops[k].arg.given
        /\ ags.sd.lineitem # <<>>
        /\ ResolvedId(ags.ops[k]) # ags.sd.lineitem
        /\ ScorePosts(ags.ops[k].wire) # {}

(* The first answer of an operation that is a 2xx response whose body is   *)
(* not a list; 0 if there is none.                                         *)
FirstNonList(answers) ==
    IF \E j \in 1..Len(answers) : answers[j] \notin {"list", "failed"}
    THEN CHOOSE j \in 1..Len(answers) :
            /\ answers[j] \notin {"list", "failed"}
            /\ \A h \in 1..(j - 1) : answers[h] \in {"list", "failed"}
    ELSE 0

(* The line items of the first n pages of the container. *)
FirstPages(items, size, n) ==
    SubSeq(items, 1, Min(n * size, Len(items)))

(* C17: a page whose body is not a list makes get_lineitems_page raise     *)
(* LtiException and return nothing, and makes a full iteration of          *)
(* get_lineitems raise LtiException having yielded the items of the pages  *)
(* before it only, the page being the last one requested.                  *)
C17_NonListPageRaises ==
    /\ \A k \in OpsOf("get_lineitems_page") :
          FirstNonList(ags.ops[k].answers) # 0
          => /\ ags.ops[k].err = LtiException
             /\ ags.ops[k].items = <<>>
             /\ ags.ops[k].result = NoResult
    /\ \A k \in OpsOf("get_lineitems") :
          FirstNonList(ags.ops[k].answers) # 0
          => /\ ags.ops[k].err = LtiException
             /\ FirstNonList(ags.ops[k].answers) = Len(ags.ops[k].answers)
             /\ ags.ops[k].items
                  = FirstPages(ags.ops[k].pre, ags.plat.size,
                               Len(ags.ops[k].answers) - 1)

(* get_lineitems met a non-list page after a page of line items, and       *)
(* get_lineitems_page met a non-list page.                                 *)
C17_Witness ==
    /\ \E k \in OpsOf("get_lineitems") :
          /\ FirstNonList(ags.ops[k].answers) > 1
          /\ ags.ops[k].items # <<>>
    /\ \E k \in OpsOf("get_lineitems_page") :
          FirstNonList(ags.ops[k].answers) # 0

(***************************************************************************)
(* _add_url_path_ending on its own: the URL is any string over a few       *)
(* symbols ("a" and "q" stand for runs of other characters), the ending    *)
(* is one of the two the service uses.                                     *)
(***************************************************************************)
MaxUrlLen == 4

UrlSymbols == {"a", "/", "?", "q"}

Urls == UNION {[1..n -> UrlSymbols] : n \in 0..MaxUrlLen}

Endings == {"scores", "results"}

InitUrl ==
    /\ impl \in Impls
    /\ now = 0
    /\ threads = <<>>
    /\ cache = <<>>
    /\ http = <<>>
    /\ issued = 0
    /\ calls = <<>>
    /\ reqs = <<>>
    /\ pg = NoPages
    /\ ags = NoAgs
    /\ dr = NoRegistration
    /\ \E url \in Urls, url_path_ending \in Endings :
          helper = [url |-> url, ending |-> url_path_ending, done |-> FALSE,
                    out |-> <<>>]

CallAddUrlPathEnding ==
    /\ ~helper.done
    /\ helper' = [helper EXCEPT !.done = TRUE,
                                !.out = AddUrlPathEnding(helper.url,
                                                         helper.ending)]
    /\ UNCHANGED <<impl, now, cache, http, issued, calls, reqs, pg, ags, dr,
                   threads>>

NextHelper == CallAddUrlPathEnding

SpecUrl == InitUrl /\ [][NextHelper]_vars

(* The path of a URL (what precedes the first "?"), and the URL with a     *)
(* segment added to its path: one "/" unless the path ends in one, the     *)
(* segment, then the first "?" and all that follows it.                    *)
PathOf(url) == UpTo(url, "?")

WithSegment(url, segment) ==
    PathOf(url) \o (IF EndsWithSlash(PathOf(url)) THEN <<>> ELSE <<"/">>)
        \o <<segment>> \o SubSeq(url, Len(PathOf(url)) + 1, Len(url))

(* C18: _add_url_path_ending(url, segment) gives the URL with the segment  *)
(* added at the end of its path, after one "/" unless the path ends in     *)
(* "/", and with everything from the first "?" on unchanged.               *)
C18_PathEndingKeepsTheQuery ==
    helper.done => helper.out = WithSegment(helper.url, helper.ending)

FindOps == OpsOf("find_lineitem_by_tag") \cup OpsOf("find_lineitem_by_id")

(* The places, in the order the platform lists them (page after page, and  *)
(* within a page from its first item on), of the line items a lookup is    *)
(* for: those whose id, or whose tag, equals the value looked for.         *)
LookedFor(rec) ==
    {k \in 1..Len(rec.pre) :
        IF rec.op = "find_lineitem_by_id" THEN rec.pre[k].id = rec.arg.id
        ELSE rec.pre[k].tag = rec.arg.tag}

(* C19: a lookup (find_lineitem_by_tag, find_lineitem_by_id) that returns  *)
(* gives the first line item, in page order and then in the order within   *)
(* the page, whose property equals the value looked for, and None exactly  *)
(* when no listed line item has it.                                        *)
C19_FindReturnsTheFirstMatch ==
    \A k \in FindOps :
        OpReturned(k)
        => /\ (ags.ops[k].item = NoItem) <=> (LookedFor(ags.ops[k]) = {})
           /\ \A h \in LookedFor(ags.ops[k]) :
                 (\A j \in LookedFor(ags.ops[k]) : h <= j)
                 => ags.ops[k].item = ags.ops[k].pre[h]

(* A lookup found a line item on a page that held another match after it,  *)
(* a lookup found a line item on the second page, and a lookup found none. *)
C19_Witness ==
    /\ \E k \in FindOps :
          /\ OpReturned(k)
          /\ Cardinality(LookedFor(ags.ops[k])) > 1
          /\ \E h \in LookedFor(ags.ops[k]) :
                h + 1 \in LookedFor(ags.ops[k]) /\ h + 1 <= ags.plat.size
    /\ \E k \in FindOps :
          /\ OpReturned(k)
          /\ ags.ops[k].item # NoItem
          /\ \A h \in LookedFor(ags.ops[k]) : h > ags.plat.size

(* C20: the sequence get_paginated_data yields is finite.  The platform    *)
(* answers a URL the same way each time it is asked, so the sequence is    *)
(* finite exactly when no iteration asks for a URL it has asked for        *)
(* before, and then it has at most as many pages as the platform has;      *)
(* this is to hold also when a rel="next" link points to a URL already     *)
(* visited.                                                                *)
C20_IterationVisitsNoUrlTwice ==
    /\ Len(pg.yielded) <= pg.n
    /\ \A j, k \in 1..Len(IterationRequests) :
          j < k => IterationRequests[j].url # IterationRequests[k].url

(* C21: get_paginated_data is lazy and restartable.  At every point of an  *)
(* iteration there is one page request per page handed to the consumer,    *)
(* plus at most the one request that made the iteration raise: nothing is  *)
(* requested before the consumer asks for the first page, nor after the    *)
(* page it asked for last.  The pages handed out are the answers to those  *)
(* requests in order, and the first request of every call is for the       *)
(* initial URL, however far the call before it had got.                    *)
C21_PagesAreFetchedOnDemandFromTheStart ==
    /\ Len(IterationRequests) >= Len(pg.yielded)
    /\ Len(IterationRequests)
          <= Len(pg.yielded) + (IF pg.outcome = "raise" THEN 1 ELSE 0)
    /\ IterationRequests # <<>> => IterationRequests[1].url = PageUrl(1)
    /\ \A k \in 1..Len(pg.yielded) :
          pg.yielded[k].body
             = JsonList(<<PageItem(PageOf(IterationRequests[k].url))>>)

(* A second call has handed out its first page only, after a call that had *)
(* got to the second page; the platform has a page more.                   *)
C21_Witness ==
    /\ pg.iter = 2
    /\ pg.n = 3
    /\ Len(pg.yielded) = 1
    /\ pg.outcome = ""
    /\ Len(IterationRequests) = 1
    /\ \E j \in 1..pg.base : http[j].url = PageUrl(2)
    /\ \A j \in 1..pg.base : http[j].url # PageUrl(3)

(* A registration response with the tool configuration and, in it, a      *)
(* deployment_id.                                                          *)
HasDeployment(reg) ==
    reg.json /\ ToolSpec \in reg.keys /\ reg.deployment_id # ""

(* C22: a register() whose registration POST is answered with anything    *)
(* but a tool configuration holding a deployment_id fails, and the         *)
(* completion hook has stored nothing: neither keys nor a tool.            *)
C22_HookOnlyForToolConfigurationWithDeployment ==
    \A k \in 1..Len(dr.runs) :
        (RegistrationPosts(dr.runs[k].wire) # {}
            /\ ~HasDeployment(dr.runs[k].reg))
        => /\ dr.runs[k].err # NoException
           /\ ~dr.runs[k].returned
           /\ dr.runs[k].keys_after = dr.runs[k].keys_before
           /\ dr.runs[k].tools_after = dr.runs[k].tools_before

(* The stored key rows of an issuer. *)
KeysOf(keys, issuer_name) == {row \in keys : row.name = issuer_name}

(* C23: after a successful registration the issuer has exactly one stored  *)
(* key pair; the registration has generated it if and only if the issuer   *)
(* had none before, and no registration removes or replaces a stored key   *)
(* pair.                                                                   *)
C23_OneKeyPairPerIssuer ==
    /\ \A r1, r2 \in dr.keys : r1.name = r2.name => r1 = r2
    /\ \A k \in 1..Len(dr.runs) :
          /\ dr.runs[k].keys_before \subseteq dr.runs[k].keys_after
          /\ dr.runs[k].returned
             => /\ Cardinality(KeysOf(dr.runs[k].keys_after,
                                      dr.runs[k].conf.issuer)) = 1
                /\ KeysOf(dr.runs[k].keys_before, dr.runs[k].conf.issuer) # {}
                     => dr.runs[k].keys_after = dr.runs[k].keys_before
                /\ KeysOf(dr.runs[k].keys_before, dr.runs[k].conf.issuer) = {}
                     => dr.runs[k].keys_after
                          = dr.runs[k].keys_before
                               \cup {[name |-> dr.runs[k].conf.issuer,
                                      pair |-> GenerateKeyPair(k)]}

(* Two successful registrations for one issuer, one after the other. *)
C23_Witness ==
    /\ Len(dr.runs) = 2
    /\ dr.runs[1].returned /\ dr.runs[2].returned
    /\ dr.runs[1].conf.issuer = dr.runs[2].conf.issuer
    /\ dr.keys = {[name |-> dr.runs[1].conf.issuer, pair |-> 1]}

----------------------------------------------------------------------------
(* Grade on its own: the two score fields and the calls of their setters.  *)
(* A Python value is [kind, num]: kind is the value's type ("int",         *)
(* "float", "bool", "str", "None"), with "nan" and "inf" for the floats    *)
(* float("nan") and float("inf"); num is the number an int, a bool or a    *)
(* finite float stands for (whole numbers only), 0 otherwise.              *)
MaxSets == 3

PyNone == [kind |-> "None", num |-> 0]

PyValues ==
    {[kind |-> "int", num |-> -1], [kind |-> "int", num |-> 0],
     [kind |-> "int", num |-> 5], [kind |-> "float", num |-> -2],
     [kind |-> "float", num |-> 0], [kind |-> "float", num |-> 100],
     [kind |-> "bool", num |-> 1], [kind |-> "str", num |-> 0],
     [kind |-> "nan", num |-> 0], [kind |-> "inf", num |-> 0], PyNone}

(* isinstance(score_value, (int, float)): bool is a subclass of int. *)
IsIntOrFloat(value) == value.kind \in {"int", "float", "bool", "nan", "inf"}

(* score_value < 0: every comparison with nan is false. *)
LessThanZero(value) ==
    value.kind \in {"int", "float", "bool"} /\ value.num < 0

(* Grade._validate_score: the message, "" for None. *)
ValidateScore(score_value) ==
    IF ~IsIntOrFloat(score_value) THEN "score must be integer or float"
    ELSE IF LessThanZero(score_value)
    THEN "score must be positive number (including 0)"
    ELSE ""

NewGrade == [score_given |-> PyNone, score_maximum |-> PyNone]

InitGrade ==
    /\ impl \in Impls
    /\ now = 0
    /\ threads = <<>>
    /\ cache = <<>>
    /\ http = <<>>
    /\ issued = 0
    /\ calls = <<>>
    /\ reqs = <<>>
    /\ pg = NoPages
    /\ ags = NoAgs
    /\ dr = NoRegistration
    /\ helper = [grade |-> NewGrade, sets |-> <<>>]

(* What is kept of a setter's call: the field, the value given, the field  *)
(* before and after, and the exception raised.                             *)
SetDone(field, value, grade, err) ==
    /\ helper' = [grade |-> grade,
                  sets |-> Append(helper.sets,
                                  [field |-> field, value |-> value,
                                   before |-> helper.grade[field],
                                   after |-> grade[field], err |-> err])]
    /\ UNCHANGED <<impl, now, cache, http, issued, calls, reqs, pg, ags, dr,
                   threads>>

(* set_score_given *)
SetScoreGiven(value) ==
    /\ Len(helper.sets) < MaxSets
    /\ IF ValidateScore(value) # ""
       THEN SetDone("score_given", value, helper.grade, LtiException)
       ELSE SetDone("score_given", value,
                    [helper.grade EXCEPT !.score_given = value], NoException)

(* set_score_maximum *)
SetScoreMaximum(value) ==
    /\ Len(helper.sets) < MaxSets
    /\ IF ValidateScore(value) # ""
       THEN SetDone("score_maximum", value, helper.grade, LtiException)
       ELSE SetDone("score_maximum", value,
                    [helper.grade EXCEPT !.score_maximum = value],
                    NoException)

NextGrade ==
    \/ \E value \in PyValues : SetScoreGiven(value)
    \/ \E value \in PyValues : SetScoreMaximum(value)

SpecGrade == InitGrade /\ [][NextGrade]_vars

(* A number that is at least 0 (True counts as 1, the float infinity as a  *)
(* number above every other; nan is not at least 0).                       *)
AtLeastZero(value) ==
    \/ value.kind \in {"int", "float", "bool"} /\ value.num >= 0
    \/ value.kind = "inf"

Numeric(value) == value.kind \in {"int", "float", "bool", "nan", "inf"}

(* C24: after any calls of set_score_given and set_score_maximum each      *)
(* score field is unset or a number at least 0; a call with a value that   *)
(* is not a number, or is negative, raises LtiException and leaves the     *)
(* field as it was; a call with 0 is accepted and stores it.               *)
C24_ScoresAreUnsetOrAtLeastZero ==
    /\ \A field \in {"score_given", "score_maximum"} :
          helper.grade[field] = PyNone \/ AtLeastZero(helper.grade[field])
    /\ \A k \in 1..Len(helper.sets) :
          /\ (~Numeric(helper.sets[k].value)
                 \/ LessThanZero(helper.sets[k].value))
             => /\ helper.sets[k].err = LtiException
                /\ helper.sets[k].after = helper.sets[k].before
          /\ (helper.sets[k].value.kind \in {"int", "float"}
                 /\ helper.sets[k].value.num = 0)
             => /\ helper.sets[k].err = NoException
                /\ helper.sets[k].after = helper.sets[k].value

----------------------------------------------------------------------------
(* The exception classes of exception.py, tree by tree: each class with    *)
(* its base class.  A raise of one of them meets an `except` clause for    *)
(* another; the clause handles the exception when the class raised is the  *)
(* clause's class or derives from it.                                      *)
BaseOfTop ==
    [Exception |-> "", LtiException |-> "Exception",
     OIDCException |-> "Exception", LtiServiceException |-> "LtiException",
     LtiJWTException |-> "LtiException",
     LtiMessageValidationException |-> "LtiException",
     LtiKeyException |-> "LtiException"]

BaseOfSrc ==
    [Exception |-> "", LtiException |-> "Exception",
     OIDCException |-> "Exception", LtiServiceException |-> "LtiException",
     LtiJWTException |-> "LtiException",
     LtiMessageValidationException |-> "LtiException",
     LtiInvalidNonceException |-> "LtiMessageValidationException",
     LtiKeyException |-> "LtiException", ToolConfException |-> "Exception",
     SessionException |-> "LtiException",
     LineItemException |-> "LtiException"]

BaseOf(i) == IF TreeOf(i) = "top" THEN BaseOfTop ELSE BaseOfSrc

(* issubclass(cls, handler) in the tree of connector i. *)
RECURSIVE IsSubclass(_, _, _)
IsSubclass(i, cls, handler) ==
    IF cls = handler THEN TRUE
    ELSE IF cls \notin DOMAIN BaseOf(i) \/ BaseOf(i)[cls] = "" THEN FALSE
    ELSE IsSubclass(i, BaseOf(i)[cls], handler)

InitRaise ==
    /\ impl \in Impls
    /\ now = 0
    /\ threads = <<>>
    /\ cache = <<>>
    /\ http = <<>>
    /\ issued = 0
    /\ calls = <<>>
    /\ reqs = <<>>
    /\ pg = NoPages
    /\ ags = NoAgs
    /\ dr = NoRegistration
    /\ \E cls \in DOMAIN BaseOf(impl), handler \in DOMAIN BaseOf(impl) :
          helper = [raised |-> cls, handler |-> handler, outcome |-> ""]

(* try: raise cls(...)  except handler: ... *)
RaiseUnderHandler ==
    /\ helper.outcome = ""
    /\ helper' = [helper EXCEPT
                    !.outcome = IF IsSubclass(impl, helper.raised,
                                              helper.handler)
                                THEN "handled" ELSE "propagated"]
    /\ UNCHANGED <<impl, now, cache, http, issued, calls, reqs, pg, ags, dr,
                   threads>>

NextRaise == RaiseUnderHandler

SpecRaise == InitRaise /\ [][NextRaise]_vars

Taxonomy ==
    {"LtiJWTException", "LtiInvalidNonceException",
     "LtiMessageValidationException", "LtiKeyException",
     "LtiServiceException", "ToolConfException", "SessionException"}

(* C25: an exception of any class of the taxonomy, raised under an         *)
(* `except LtiException` clause, is handled by it.                         *)
C25_LtiExceptionHandlesTheTaxonomy ==
    (helper.outcome # "" /\ helper.handler = "LtiException"
        /\ helper.raised \in Taxonomy)
    => helper.outcome = "handled"

----------------------------------------------------------------------------
(* Claims on the next_page_url of make_service_request. *)

(* The places of the rel="next" entries of a Link header. *)
NextEntries(link) == {j \in 1..Len(link) : link[j].rel = "next"}

(* The URL of the first rel="next" entry of a Link header, <<>> (None)     *)
(* when the header is absent or has no such entry.                         *)
FirstNextUrl(link) ==
    IF NextEntries(link) = {} THEN <<>>
    ELSE link[CHOOSE j \in NextEntries(link) :
                 \A h \in NextEntries(link) : j <= h].url

(* C26: a make_service_request that returns gives as next_page_url the URL *)
(* of the first rel="next" entry of the Link header, whatever entries and  *)
(* line breaks come before it, and None when the header is absent, has no  *)
(* such entry, or the entry's URL is empty.                                *)
C26_NextPageUrlIsTheFirstNextEntry ==
    \A k \in 1..Len(reqs) :
        reqs[k].result.returned
        => reqs[k].result.next_page_url = FirstNextUrl(reqs[k].response.link)

(* C30: a next_page_url that make_service_request returns is, character    *)
(* for character, a URL of the Link header of the response.                *)
C30_NextPageUrlKeepsItsCase ==
    \A k \in 1..Len(reqs) :
        (reqs[k].result.returned /\ reqs[k].result.next_page_url # <<>>)
        => \E j \in 1..Len(reqs[k].response.link) :
              reqs[k].response.link[j].url = reqs[k].result.next_page_url

----------------------------------------------------------------------------
(* get_access_token called by several threads at once, over one connector  *)
(* and one cache.  A thread is [scopes, pc, ...]: at "start" it has called *)
(* and not yet looked the cache up; at "exchange" it has missed and is     *)
(* about to POST to the token endpoint; at "store" it holds the response   *)
(* and is about to call _cache_access_token; at "done" it has returned or  *)
(* raised.  The lookup and the store are one step each (a dict read or     *)
(* item assignment, a cache.get or cache.set); the clock and the other     *)
(* threads may move between any two steps.  All threads but the last ask   *)
(* for the same scope set; the last asks for that one or for another.      *)
MaxThreads == 3

ThreadScopeLists == {<<"score">>, <<"lineitem">>}

ThreadTokenBehaviours ==
    {[mode |-> "ok", e |-> 2], [mode |-> "ok", e |-> 12],
     [mode |-> "non2xx", e |-> -1]}

NoEntry == [tok |-> 0, exp |-> 0]

NewThread(scopes) ==
    [scopes |-> scopes, pc |-> "start", tok |-> 0, expires_in |-> 0,
     ret |-> 0, err |-> NoException, hit |-> FALSE, looked_at |-> 0,
     served |-> NoEntry, stored_at |-> 0]

InitThreads ==
    /\ impl \in Impls
    /\ now = 0
    /\ cache = <<>>
    /\ http = <<>>
    /\ issued = 0
    /\ calls = <<>>
    /\ reqs = <<>>
    /\ pg = NoPages
    /\ ags = NoAgs
    /\ dr = NoRegistration
    /\ helper = NoHelper
    /\ \E scopes \in ThreadScopeLists :
          threads = [p \in 1..MaxThreads |->
                        NewThread(IF p = MaxThreads THEN scopes
                                  ELSE <<"score">>)]

ThreadKey(p) == ScopeKey(Sorted(threads[p].scopes))

(* cached_token = self._get_cached_access_token(scope_key), and the return *)
(* of it when there is one.                                                *)
LookUp(p) ==
    /\ threads[p].pc = "start"
    /\ threads' = [threads EXCEPT ![p] =
          IF GetCachedAccessToken(impl, cache, ThreadKey(p), now) # 0
          THEN [@ EXCEPT !.pc = "done", !.hit = TRUE, !.looked_at = now,
                         !.ret = GetCachedAccessToken(impl, cache,
                                                      ThreadKey(p), now),
                         !.served = cache[ThreadKey(p)]]
          ELSE [@ EXCEPT !.pc = "exchange", !.looked_at = now]]
    /\ UNCHANGED <<impl, now, cache, http, issued, calls, reqs, pg, ags, dr,
                   helper>>

(* The POST to the token endpoint and the reading of its response. *)
Exchange(p, tk) ==
    /\ threads[p].pc = "exchange"
    /\ http' = Append(http, TokenRequest(Sorted(threads[p].scopes)))
    /\ IF TokenResponse(tk, issued + 1).ok
       THEN /\ issued' = issued + 1
            /\ threads' = [threads EXCEPT ![p] =
                  [@ EXCEPT !.pc = "store",
                            !.tok = TokenResponse(tk, issued + 1).access_token,
                            !.expires_in =
                                TokenResponse(tk, issued + 1).expires_in]]
       ELSE /\ issued' = issued
            /\ threads' = [threads EXCEPT ![p] =
                  [@ EXCEPT !.pc = "done",
                            !.err = RaiseLtiServiceException(impl,
                                        TokenResponse(tk, issued + 1))]]
    /\ UNCHANGED <<impl, now, cache, calls, reqs, pg, ags, dr, helper>>

(* self._cache_access_token(...), and the return of the token. *)
Store(p) ==
    /\ threads[p].pc = "store"
    /\ cache' = CacheAccessToken(impl, cache, ThreadKey(p), threads[p].tok,
                                 threads[p].expires_in, now)
    /\ threads' = [threads EXCEPT ![p] =
          [@ EXCEPT !.pc = "done", !.ret = threads[p].tok,
                    !.stored_at = now]]
    /\ UNCHANGED <<impl, now, http, issued, calls, reqs, pg, ags, dr, helper>>

NextThreads ==
    \/ \E p \in 1..MaxThreads : LookUp(p)
    \/ \E p \in 1..MaxThreads, tk \in ThreadTokenBehaviours : Exchange(p, tk)
    \/ \E p \in 1..MaxThreads : Store(p)
    \/ Tick

SpecThreads == InitThreads /\ [][NextThreads]_vars

(* The threads whose exchange the token endpoint answered with a token. *)
Exchanged == {q \in DOMAIN threads : threads[q].tok # 0}

(* The entry an exchange leaves when it is stored: its token, and the      *)
(* expiry counted from the time of the store.                              *)
EntryOf(q) ==
    [tok |-> threads[q].tok,
     exp |-> threads[q].stored_at
               + (IF impl = "django" THEN Max(1, threads[q].expires_in - 10)
                  ELSE threads[q].expires_in)]

AllDone == \A p \in DOMAIN threads : threads[p].pc = "done"

(* C27: whatever the interleaving, a call that returns gives a token the   *)
(* token endpoint issued in an exchange for the same scope set; a token    *)
(* served from the cache was served before the expiry of its entry, the    *)
(* entry being the one some exchange for that scope set stored; and when   *)
(* every call has finished each cache entry is the token and the expiry of *)
(* one single stored exchange for its key.                                 *)
C27_ConcurrentCallsLeaveOneExchange ==
    /\ \A p \in DOMAIN threads :
          (threads[p].pc = "done" /\ threads[p].err = NoException)
          => /\ \E q \in Exchanged :
                   /\ threads[q].tok = threads[p].ret
                   /\ ThreadKey(q) = ThreadKey(p)
             /\ threads[p].hit
                => /\ threads[p].served.exp > threads[p].looked_at
                   /\ \E q \in Exchanged :
                         /\ threads[q].pc = "done"
                         /\ ThreadKey(q) = ThreadKey(p)
                         /\ threads[p].served = EntryOf(q)
    /\ AllDone
       => \A key \in DOMAIN cache :
             \E q \in Exchanged :
                /\ ThreadKey(q) = key
                /\ cache[key] = EntryOf(q)

(* Two threads missed for the same scope set, both exchanged and stored,   *)
(* with different lifetimes, and a third was served from the cache.        *)
C27_Witness ==
    /\ AllDone
    /\ \E p, q, r \in DOMAIN threads :
          /\ p # q
          /\ ThreadKey(p) = ThreadKey(q) /\ ThreadKey(r) = ThreadKey(p)
          /\ threads[p].tok # 0 /\ threads[q].tok # 0
          /\ threads[p].expires_in # threads[q].expires_in
          /\ threads[r].hit

----------------------------------------------------------------------------
(* The token POSTs among the requests of a make_service_request. *)
TokenPostsOf(k) ==
    {n \in 1..Len(reqs[k].wire) : reqs[k].wire[n].url = TokenUrl}

(* C28: a make_service_request issues at most one service request and at   *)
(* most one POST to the token endpoint, whether it returns or raises; a    *)
(* POST the platform answers with a failure has been sent exactly once.    *)
C28_NoRequestIsSentTwice ==
    \A k \in 1..Len(reqs) :
        /\ Cardinality(ServiceRequestsOf(k)) <= 1
        /\ Cardinality(TokenPostsOf(k)) <= 1
        /\ (reqs[k].is_post /\ reqs[k].err.exc = "LtiServiceException"
               /\ reqs[k].token # 0)
           => /\ Cardinality(ServiceRequestsOf(k)) = 1
              /\ \A n \in ServiceRequestsOf(k) :
                    reqs[k].wire[n].method = "POST"

(* A POST was answered with a failure after a token exchange of its own. *)
C28_Witness ==
    \E k \in 1..Len(reqs) :
        /\ reqs[k].is_post
        /\ ~reqs[k].response.ok
        /\ reqs[k].err.exc = "LtiServiceException"
        /\ Cardinality(ServiceRequestsOf(k)) = 1
        /\ Cardinality(TokenPostsOf(k)) = 1

----------------------------------------------------------------------------
(* The JWT assertion of a token exchange.  get_access_token reads the      *)
(* clock twice, once for "iat" and once for "exp", while it builds the     *)
(* claims; the two reads are steps of their own and the clock may move     *)
(* between them.  now is int(time.time()).                                 *)
MaxAssertions == 3

(* The registrations an assertion is built for.  An audience of <<>> and a *)
(* key id of "" stand for None or the empty string: the code tests both    *)
(* by truth value.                                                         *)
AssertionRegistrations ==
    [client_id : {"client"}, auth_token_url : {TokenUrl},
     auth_audience : {<<>>, <<"audience">>}, kid : {"", "kid"}]

(* aud = auth_audience if auth_audience else auth_url *)
AudienceOf(reg) ==
    IF reg.auth_audience # <<>> THEN reg.auth_audience
    ELSE reg.auth_token_url

(* jwt_claim, with the two clock readings it is built from (jti is a       *)
(* fresh uuid and is left out).                                            *)
JwtClaim(reg, iat_read, exp_read) ==
    [iss |-> reg.client_id, sub |-> reg.client_id, aud |-> AudienceOf(reg),
     iat |-> iat_read - 5, exp |-> exp_read + 60]

(* headers = {}; if kid: headers = {"kid": kid} *)
JwtHeaders(reg) ==
    IF reg.kid # "" THEN [h \in {"kid"} |-> reg.kid]
    ELSE [h \in {} |-> ""]

InitAssertion ==
    /\ impl \in Impls
    /\ now = 0
    /\ threads = <<>>
    /\ cache = <<>>
    /\ http = <<>>
    /\ issued = 0
    /\ calls = <<>>
    /\ reqs = <<>>
    /\ pg = NoPages
    /\ ags = NoAgs
    /\ dr = NoRegistration
    /\ helper = [pc |-> "idle", reg |-> CHOOSE r \in AssertionRegistrations : TRUE,
                 iat_read |-> 0, built |-> <<>>]

(* The exchange starts: the registration is read and the clock is read for *)
(* "iat".                                                                  *)
ReadClockForIat(reg) ==
    /\ helper.pc = "idle"
    /\ Len(helper.built) < MaxAssertions
    /\ helper' = [helper EXCEPT !.pc = "iat", !.reg = reg, !.iat_read = now]
    /\ UNCHANGED <<impl, now, cache, http, issued, calls, reqs, pg, ags, dr,
                   threads>>

(* The clock is read for "exp" and the assertion is encoded with its       *)
(* headers.                                                                *)
ReadClockForExp ==
    /\ helper.pc = "iat"
    /\ helper' = [helper EXCEPT
                    !.pc = "idle",
                    !.built = Append(@, [reg |-> helper.reg,
                                         iat_read |-> helper.iat_read,
                                         exp_read |-> now,
                                         claim |-> JwtClaim(helper.reg,
                                                            helper.iat_read,
                                                            now),
                                         headers |-> JwtHeaders(helper.reg)])]
    /\ UNCHANGED <<impl, now, cache, http, issued, calls, reqs, pg, ags, dr,
                   threads>>

NextAssertion ==
    \/ \E reg \in AssertionRegistrations : ReadClockForIat(reg)
    \/ ReadClockForExp
    \/ Tick

SpecAssertion == InitAssertion /\ [][NextAssertion]_vars

(* C29: every assertion has iss = sub = the client id, aud = the explicit  *)
(* audience when there is one and the token endpoint URL otherwise, iat 5  *)
(* seconds before the time of the exchange, exp exactly 65 seconds after   *)
(* iat, and a "kid" header only when the registration has a key id.        *)
C29_AssertionClaimsAndHeader ==
    \A n \in 1..Len(helper.built) :
        LET b == helper.built[n] IN
        /\ b.claim.iss = b.reg.client_id
        /\ b.claim.sub = b.reg.client_id
        /\ b.claim.aud = (IF b.reg.auth_audience # <<>>
                          THEN b.reg.auth_audience
                          ELSE b.reg.auth_token_url)
        /\ b.claim.iat = b.iat_read - 5
        /\ b.claim.exp = b.claim.iat + 65
        /\ ("kid" \in DOMAIN b.headers) <=> (b.reg.kid # "")

----------------------------------------------------------------------------
(* The requests of make_service_request call k that went to the token      *)
(* endpoint and were not followed by a service request: the exchange       *)
(* failed.                                                                 *)
FailedInExchange(k) ==
    /\ reqs[k].err.exc # ""
    /\ TokenPostsOf(k) # {}
    /\ ServiceRequestsOf(k) = {}

(* The service request of call k was sent and the call raised. *)
FailedInService(k) ==
    /\ reqs[k].err.exc # ""
    /\ ServiceRequestsOf(k) # {}

(* C31: a make_service_request that fails because of what the token       *)
(* endpoint or the service answered raises LtiServiceException carrying    *)
(* that response; a 2xx service response with an undecodable body and a    *)
(* 2xx token response without access_token are among these failures.       *)
C31_RemoteFailuresRaiseServiceException ==
    \A k \in 1..Len(reqs) :
        /\ FailedInExchange(k)
           => /\ reqs[k].err.exc = "LtiServiceException"
              /\ reqs[k].err.response.url = TokenUrl
        /\ FailedInService(k)
           => /\ reqs[k].err.exc = "LtiServiceException"
              /\ reqs[k].err.response = reqs[k].response

----------------------------------------------------------------------------
(* The find_or_create_lineitem operations that were given a condition. *)
ConditionOps == OpsOf("find_or_create_lineitem(condition)")

(* The lookup arguments of operation k are not usable: find_by is none of  *)
(* the four values, or the new line item lacks the member it selects.      *)
LookupRejected(k) ==
    \/ ags.ops[k].find_by
          \notin {"tag", "id", "resource_link_id", "resource_id"}
    \/ ags.ops[k].find_by = "tag" /\ ags.ops[k].arg.tag = ""
    \/ ags.ops[k].find_by = "id" /\ ags.ops[k].arg.id = <<>>
    \/ /\ ags.ops[k].find_by = "resource_link_id"
       /\ ResourceLinkIdOf(ags.ops[k].arg) = ""
    \/ /\ ags.ops[k].find_by = "resource_id"
       /\ ResourceIdOf(ags.ops[k].arg) = ""

(* C32: without a condition, find_or_create_lineitem with an unknown       *)
(* find_by, or with a new line item lacking the member find_by selects,    *)
(* raises LtiException without having issued a request; with a condition,  *)
(* find_by plays no part: the lookup goes to the platform whatever find_by *)
(* is, and a line item found is one that satisfies the condition.          *)
C32_LookupArgumentsAreCheckedBeforeAnyRequest ==
    /\ \A k \in OpsOf("find_or_create_lineitem") :
          LookupRejected(k)
             => ags.ops[k].err = LtiException /\ ags.ops[k].wire = <<>>
    /\ \A k \in ConditionOps :
          /\ ags.ops[k].wire # <<>>
          /\ (OpReturned(k) /\ CreationPosts(ags.ops[k].wire) = 0)
             => ags.ops[k].item.tag = "b"

(* An unknown find_by, a missing resource link id and a missing tag have   *)
(* each been rejected, and a condition has found its line item although    *)
(* find_by was unknown.                                                    *)
C32_Witness ==
    \/ /\ Len(ags.ops) = 2
       /\ ags.ops[1].op = "find_or_create_lineitem"
       /\ ags.ops[1].find_by = "resource_link_id"
       /\ ResourceLinkIdOf(ags.ops[1].arg) = ""
       /\ ags.ops[1].err = LtiException
       /\ ags.ops[2].op = "find_or_create_lineitem(condition)"
       /\ ags.ops[2].find_by = "name"
       /\ OpReturned(2)
       /\ ags.ops[2].item.tag = "b"
    \/ /\ Len(ags.ops) = 2
       /\ ags.ops[1].op = "find_or_create_lineitem"
       /\ ags.ops[1].find_by = "name"
       /\ ags.ops[1].err = LtiException
       /\ ags.ops[2].op = "find_or_create_lineitem"
       /\ ags.ops[2].find_by = "tag"
       /\ ags.ops[2].arg.tag = ""
       /\ ags.ops[2].err = LtiException

----------------------------------------------------------------------------
(* DjangoRequest and DjangoMessageLaunch.  An HttpRequest is [GET, POST]:  *)
(* two dicts, functions from the parameters present to their values.       *)
MaxReads == 2

ParamNames == {"id_token", "state"}

(* dict.get(key, default) *)
DictGet(d, key, default) == IF key \in DOMAIN d THEN d[key] ELSE default

(* None, as the value of a parameter. *)
NoParam == "None"

(* The dicts with the given value for some of the parameters. *)
DictsOf(value) ==
    UNION {[names -> {value}] : names \in SUBSET ParamNames}

HttpRequests == [GET : DictsOf("from GET"), POST : DictsOf("from POST")]

(* DjangoRequest.__init__: default_params <<>> is None, replaced by {}. *)
DjangoRequest(request, post_only, default_params) ==
    [request |-> request, post_only |-> post_only,
     default_params |-> default_params]

(* DjangoRequest.get_param *)
GetParam(r, key) ==
    IF r.post_only
    THEN DictGet(r.request.POST, key, DictGet(r.default_params, key, NoParam))
    ELSE DictGet(r.request.GET, key,
                 DictGet(r.request.POST, key,
                         DictGet(r.default_params, key, NoParam)))

(* DjangoMessageLaunch.__init__: arg is what the view passes as request,   *)
(* [is_request, value]: an HttpRequest, or a Request object the view has   *)
(* built, which is taken as it is.                                         *)
DjangoMessageLaunch(arg) ==
    IF arg.is_request THEN arg.value
    ELSE DjangoRequest(arg.value, TRUE, <<>>)

(* What a view may pass: the HttpRequest, or a DjangoRequest over it. *)
LaunchArguments ==
    {[is_request |-> FALSE, value |-> h] : h \in HttpRequests}
      \cup {[is_request |-> TRUE, value |-> DjangoRequest(h, p, d)] :
              h \in HttpRequests, p \in BOOLEAN,
              d \in {<<>>, [n \in {"state"} |-> "default"]}}

InitLaunch ==
    /\ impl \in Impls
    /\ now = 0
    /\ threads = <<>>
    /\ cache = <<>>
    /\ http = <<>>
    /\ issued = 0
    /\ calls = <<>>
    /\ reqs = <<>>
    /\ pg = NoPages
    /\ ags = NoAgs
    /\ dr = NoRegistration
    /\ helper = [reads |-> <<>>]

(* A launch is built and reads a parameter: _get_request_param(key). *)
LaunchGetRequestParam(arg, key) ==
    /\ Len(helper.reads) < MaxReads
    /\ helper' = [reads |-> Append(helper.reads,
                     [arg |-> arg, request |-> DjangoMessageLaunch(arg),
                      key |-> key,
                      value |-> GetParam(DjangoMessageLaunch(arg), key)])]
    /\ UNCHANGED <<impl, now, cache, http, issued, calls, reqs, pg, ags, dr,
                   threads>>

NextLaunch ==
    \E arg \in LaunchArguments, key \in ParamNames :
        LaunchGetRequestParam(arg, key)

SpecLaunch == InitLaunch /\ [][NextLaunch]_vars

(* C33: a Django message launch takes no parameter from the query string:  *)
(* a request with post_only gives the POST value or else the default,      *)
(* never the GET value; one without post_only gives the GET value before   *)
(* the POST value, and the default only when the parameter is in neither.  *)
C33_LaunchParametersComeFromThePostBody ==
    \A n \in 1..Len(helper.reads) :
        LET rd == helper.reads[n]
            h == rd.request.request
            default == DictGet(rd.request.default_params, rd.key, NoParam)
        IN  /\ rd.value # "from GET"
            /\ rd.request.post_only
               => rd.value = DictGet(h.POST, rd.key, default)
            /\ ~rd.request.post_only
               => /\ rd.key \in DOMAIN h.GET => rd.value = h.GET[rd.key]
                  /\ (rd.key \notin DOMAIN h.GET /\ rd.key \in DOMAIN h.POST)
                     => rd.value = h.POST[rd.key]
                  /\ rd.value = default
                     => rd.key \notin DOMAIN h.GET \cup DOMAIN h.POST

----------------------------------------------------------------------------
(* find_or_create_lineitem called by several workers at the same time, one *)
(* per incoming request, over one platform and one token cache.  A worker  *)
(* can be overtaken between its lookup and its creation POST; threads[p]   *)
(* is [new_lineitem, pc, before, item, err]: pc is "find" before the       *)
(* lookup, "create" when the lookup has found nothing, "done" at the end;  *)
(* before is the listing the platform had when the workers began.          *)
MaxWorkers == 2

NewWorker(new_lineitem, before) ==
    [new_lineitem |-> new_lineitem, pc |-> "find", before |-> before,
     item |-> NoItem, err |-> NoException]

InitWorkers ==
    /\ impl \in PagesImpls
    /\ now = 0
    /\ cache = <<>>
    /\ http = <<>>
    /\ issued = 0
    /\ calls = <<>>
    /\ reqs = <<>>
    /\ pg = NoPages
    /\ dr = NoRegistration
    /\ helper = NoHelper
    /\ \E scope \in AgsScopeLists, style \in IdStyles, tag \in {"a", "c"} :
          \E items \in Holdings(style) :
             /\ ags = [sd |-> [scope |-> scope, lineitems |-> LineitemsUrl,
                               lineitem |-> <<>>],
                       plat |-> [items |-> items, size |-> PageSize,
                                 style |-> style],
                       ops |-> <<>>]
             /\ threads = [p \in 1..MaxWorkers |->
                             NewWorker([id |-> <<>>, tag |-> tag], items)]

(* The lookup of worker p: find_lineitem_by_tag, to its end. *)
WorkerFound(p, out) ==
    /\ Becomes(out)
    /\ threads' = [threads EXCEPT
                     ![p].pc = IF out.err = NoException /\ out.item = NoItem
                               THEN "create" ELSE "done",
                     ![p].item = out.item,
                     ![p].err = out.err]
    /\ UNCHANGED <<impl, now, calls, reqs, pg, ags, dr, helper>>

WorkerFinds(p, e) ==
    /\ threads[p].pc = "find"
    /\ WorkerFound(p, FindLineitem(impl, State, ags.sd, ags.plat, e, now,
                                   "tag", threads[p].new_lineitem.tag))

(* The lookup of worker p has found nothing: create_lineitem. *)
WorkerCreated(p, out) ==
    /\ Becomes(out)
    /\ ags' = [ags EXCEPT !.plat = out.plat]
    /\ threads' = [threads EXCEPT ![p].pc = "done", ![p].item = out.item,
                                  ![p].err = out.err]
    /\ UNCHANGED <<impl, now, calls, reqs, pg, dr, helper>>

WorkerCreates(p, e) ==
    /\ threads[p].pc = "create"
    /\ WorkerCreated(p, CreateLineitem(impl, State, ags.sd, ags.plat, e, now,
                                       threads[p].new_lineitem))

NextWorkers ==
    \/ \E p \in 1..MaxWorkers, e \in Environments : WorkerFinds(p, e)
    \/ \E p \in 1..MaxWorkers, e \in Environments : WorkerCreates(p, e)

SpecWorkers == InitWorkers /\ [][NextWorkers]_vars

(* How many of the items have the tag. *)
WithTag(items, tag) ==
    Cardinality({k \in 1..Len(items) : items[k].tag = tag})

(* C34: when the workers, all with the same tag, have returned, the        *)
(* platform holds at most one line item with that tag (no more than it     *)
(* held before, when it held several) and every worker has returned the    *)
(* same line item id.                                                      *)
C34_ConcurrentFindOrCreateLeavesOneLineitem ==
    (\A p \in DOMAIN threads :
         threads[p].pc = "done" /\ threads[p].err = NoException)
    => /\ \A p \in DOMAIN threads :
             WithTag(ags.plat.items, threads[p].new_lineitem.tag)
                <= Max(1, WithTag(threads[p].before,
                                  threads[p].new_lineitem.tag))
       /\ \A p, q \in DOMAIN threads : threads[p].item.id = threads[q].item.id

----------------------------------------------------------------------------
(* Connectors of several registrations in one process.  The registrations  *)
(* have the issuer of Registration and differ in their client_id.  The     *)
(* Flask connector keeps its tokens in a dict of the class and the Django  *)
(* connector in Django's cache: every connector of the process reads and   *)
(* writes the one `cache`.  The in-process connector keeps them in a dict  *)
(* made in __init__: threads[p].cache is that of connector p.              *)
(* helper.owner[n] is the client_id token n was issued to, helper.gets     *)
(* the calls of get_access_token.                                          *)
MaxGets == 3

ClientIds == <<"client", "client2">>

NewConnector(client_id) == [client_id |-> client_id, cache |-> <<>>]

InitTenants ==
    /\ impl \in Impls
    /\ now = 0
    /\ cache = <<>>
    /\ http = <<>>
    /\ issued = 0
    /\ calls = <<>>
    /\ reqs = <<>>
    /\ pg = NoPages
    /\ ags = NoAgs
    /\ dr = NoRegistration
    /\ helper = [owner |-> <<>>, gets |-> <<>>]
    /\ threads = [p \in 1..Len(ClientIds) |-> NewConnector(ClientIds[p])]

(* The cache connector p looks into and stores in. *)
CacheOf(p) == IF impl = "memory" THEN threads[p].cache ELSE cache

TenantGetAccessTokenDone(p, scopes, after) ==
    /\ http' = after.http
    /\ issued' = after.issued
    /\ IF impl = "memory"
       THEN /\ threads' = [threads EXCEPT ![p].cache = after.cache]
            /\ UNCHANGED cache
       ELSE /\ cache' = after.cache
            /\ UNCHANGED threads
    /\ helper' = [owner |-> IF after.issued > issued
                            THEN Append(helper.owner, threads[p].client_id)
                            ELSE helper.owner,
                  gets |-> Append(helper.gets,
                             [connector |-> p,
                              client_id |-> threads[p].client_id,
                              scopes |-> scopes, ret |-> after.ret,
                              hit |-> after.hit, at |-> now])]
    /\ UNCHANGED <<impl, now, calls, reqs, pg, ags, dr>>

(* Connector p's get_access_token(scopes). *)
TenantGetAccessToken(p, scopes, tk) ==
    /\ Len(helper.gets) < MaxGets
    /\ TenantGetAccessTokenDone(p, scopes,
           GetAccessToken(impl,
                          [cache |-> CacheOf(p), http |-> http,
                           issued |-> issued],
                          scopes, tk, now))

NextTenants ==
    \/ \E p \in 1..Len(ClientIds), scopes \in ThreadScopeLists,
          tk \in ThreadTokenBehaviours :
          TenantGetAccessToken(p, scopes, tk)
    \/ Tick

SpecTenants == InitTenants /\ [][NextTenants]_vars

(* C35: the token a get_access_token returns was issued to the client_id   *)
(* of the connector's own registration, also when another registration of  *)
(* the same issuer has asked for the same scopes.                          *)
C35_TokensStayWithTheirClient ==
    \A n \in 1..Len(helper.gets) :
        helper.gets[n].ret # 0
        => helper.owner[helper.gets[n].ret] = helper.gets[n].client_id

----------------------------------------------------------------------------
(* The step is a get_access_token that went to the token endpoint and      *)
(* raised.                                                                 *)
ExchangeFails ==
    /\ Len(calls') = Len(calls) + 1
    /\ calls'[Len(calls')].op = "get_access_token"
    /\ calls'[Len(calls')].posts = 1
    /\ calls'[Len(calls')].err.exc # ""

(* C36: a get_access_token whose exchange fails leaves the token cache as  *)
(* it was: no entry is written, changed or removed, under the scope key of *)
(* the call or any other.                                                  *)
C36_FailedExchangeLeavesTheCache ==
    [][ExchangeFails => cache' = cache]_vars

(* An exchange has failed while the cache held an entry under the scope    *)
(* key of the call (expired, so that the call went to the token endpoint). *)
C36_Witness ==
    /\ Len(calls) = 2
    /\ Returned(1)
    /\ calls[2].scopes = calls[1].scopes
    /\ calls[2].posts = 1
    /\ ~Returned(2)
    /\ HasEntry(cache, ScopeKey(calls[2].scopes))

----------------------------------------------------------------------------
(* The positions of the token requests among the requests of operation k. *)
TokenPostsIn(k) ==
    {n \in 1..Len(ags.ops[k].wire) : ags.ops[k].wire[n].url = TokenUrl}

(* C37: every token request of an AGS operation asks for the launch's      *)
(* whole scope list, so the cache holds no entry but the one of that list, *)
(* and a put_grade, with its lookup, creation and score requests, goes to  *)
(* the token endpoint at most once while the token lasts.                  *)
C37_AgsOperationsShareOneToken ==
    /\ \A k \in 1..Len(ags.ops) :
          \A n \in TokenPostsIn(k) :
             ags.ops[k].wire[n].data.scope = Sorted(ags.sd.scope)
    /\ \A key \in DOMAIN cache : key = ScopeKey(ags.sd.scope)
    /\ \A k \in OpsOf("put_grade") : Cardinality(TokenPostsIn(k)) <= 1

(* A put_grade has listed the line items, created one and posted the score *)
(* with one token exchange.                                                *)
C37_Witness ==
    \E k \in OpsOf("put_grade") :
        /\ OpReturned(k)
        /\ CreationPosts(ags.ops[k].wire) = 1
        /\ Cardinality(TokenPostsIn(k)) = 1
        /\ \E n \in 1..Len(ags.ops[k].wire) :
              /\ ags.ops[k].wire[n].method = "GET"
              /\ ags.ops[k].wire[n].url = LineitemsUrl
        /\ \E n \in 1..Len(ags.ops[k].wire) :
              /\ ags.ops[k].wire[n].method = "POST"
              /\ IsScoresUrl(ags.ops[k].wire[n].url)

----------------------------------------------------------------------------
(* The operations that look a line item up, and the places in the          *)
(* platform's listing of the line items each is looking for.               *)
LookupOps ==
    FindOps \cup OpsOf("find_or_create_lineitem") \cup ConditionOps

MatchPlaces(rec) ==
    IF rec.op \in {"find_lineitem_by_tag", "find_lineitem_by_id"}
    THEN LookedFor(rec)
    ELSE IF rec.op = "find_or_create_lineitem(condition)"
    THEN {k \in 1..Len(rec.pre) : rec.pre[k].tag = "b"}
    ELSE Listed(rec)

(* The page of the container that holds the first of the places. *)
FirstMatchPage(rec) ==
    ((CHOOSE h \in MatchPlaces(rec) : \A j \in MatchPlaces(rec) : h <= j) - 1)
        \div ags.plat.size + 1

(* C38: a lookup that returns a line item it has found has requested the   *)
(* pages of the container up to the one that holds the first match, each   *)
(* once, and no page after it.                                             *)
C38_NoPageIsRequestedAfterTheMatch ==
    \A k \in LookupOps :
        (OpReturned(k) /\ ags.ops[k].item # NoItem
            /\ CreationPosts(ags.ops[k].wire) = 0)
        => /\ MatchPlaces(ags.ops[k]) # {}
           /\ \A j \in ListGets(ags.ops[k].wire) :
                 PageOf(ags.ops[k].wire[j].url) <= FirstMatchPage(ags.ops[k])
           /\ Cardinality(ListGets(ags.ops[k].wire))
                = FirstMatchPage(ags.ops[k])

(* A lookup and a find-or-create have each found their line item on the    *)
(* first of two pages and requested that page only.                        *)
C38_Witness ==
    /\ \E k \in FindOps :
          /\ OpReturned(k) /\ ags.ops[k].item # NoItem
          /\ Len(ags.ops[k].pre) > ags.plat.size
          /\ FirstMatchPage(ags.ops[k]) = 1
          /\ Cardinality(ListGets(ags.ops[k].wire)) = 1
    /\ \E k \in OpsOf("find_or_create_lineitem") :
          /\ OpReturned(k) /\ CreationPosts(ags.ops[k].wire) = 0
          /\ Len(ags.ops[k].pre) > ags.plat.size
          /\ FirstMatchPage(ags.ops[k]) = 1
          /\ Cardinality(ListGets(ags.ops[k].wire)) = 1

----------------------------------------------------------------------------
(* C39: register() without an OpenID configuration endpoint raises         *)
(* LtiException and issues no request; with one, its first request is the  *)
(* GET of the configuration, a registration POST comes after it, goes to   *)
(* the registration_endpoint of the configuration, and carries the         *)
(* registration token as bearer when there is a token and no Authorization *)
(* header when there is none.                                              *)
C39_ConfigurationIsReadBeforeTheRegistrationPost ==
    \A k \in 1..Len(dr.runs) :
        /\ dr.runs[k].endpoint = <<>>
           => dr.runs[k].err = LtiException /\ dr.runs[k].wire = <<>>
        /\ dr.runs[k].endpoint # <<>>
           => /\ dr.runs[k].wire # <<>>
              /\ dr.runs[k].wire[1]
                   = RegRequest("GET", dr.runs[k].endpoint, "")
              /\ \A n \in RegistrationPosts(dr.runs[k].wire) :
                    /\ n = 2
                    /\ Len(dr.runs[k].wire) = 2
                    /\ "registration_endpoint" \in dr.runs[k].conf.keys
                    /\ dr.runs[k].wire[n].url
                         = RegistrationEndpointOf(dr.runs[k].conf)
                    /\ dr.runs[k].wire[n].auth
                         = dr.runs[k].registration_token

(* A run without endpoint was refused, a run with a token has posted to    *)
(* the second platform's endpoint, and a run without a token has posted.   *)
C39_Witness ==
    \/ /\ Len(dr.runs) = 2
       /\ dr.runs[1].endpoint = <<>>
       /\ dr.runs[2].registration_token = "regtoken"
       /\ dr.runs[2].conf.issuer = "iss2"
       /\ RegistrationPosts(dr.runs[2].wire) = {2}
       /\ dr.runs[2].returned
    \/ /\ Len(dr.runs) = 2
       /\ dr.runs[1].registration_token = ""
       /\ RegistrationPosts(dr.runs[1].wire) = {2}
       /\ dr.runs[2].registration_token = "regtoken"
       /\ RegistrationPosts(dr.runs[2].wire) = {2}

====
